---- MODULE Spec2Model ----
(***************************************************************************)
(* Model of the flip-finder pricing and scoring pipeline: the net-profit   *)
(* calculator, the V.E.S.T. component scorers, the grade override engine,  *)
(* the buy-price suggestion and the price triangulation.                   *)
(*                                                                         *)
(* Number representation.  The source computes with IEEE doubles; the      *)
(* model computes the same expressions in exact fixed-point arithmetic:    *)
(*   money inputs            cents                                         *)
(*   unrounded money         micro-dollars (1 cent = 10000 micro)          *)
(*   rates                   basis points (0.129 = 1290 / 10000)           *)
(*   scores                  hundredths of a point (83 = 8300)             *)
(*   percentages             hundredths of a percent                       *)
(* Math.round(x) is floor(x + 1/2).                                        *)
(***************************************************************************)
EXTENDS Integers, Sequences, FiniteSets, TLC

VARIABLES pc,
          profitArgs, profitResult,
          overrideArgs, overrideResult,
          market, vestInput, vestScore, targetGrade, suggestion,
          aiEstimate, ebayResponse, ebayData, triangulation,
          sellArgs, sellResult,
          originalQuery, minResults, queries, tierIndex, searchCalls,
          searchReturn,
          maxBuyArgs, maxBuyResult,
          identification, ebayService, scanResponse,
          scanData, sliderBuyPrice, excludedListings

vars == <<pc, profitArgs, profitResult, overrideArgs, overrideResult,
          market, vestInput, vestScore, targetGrade, suggestion,
          aiEstimate, ebayResponse, ebayData, triangulation,
          sellArgs, sellResult,
          originalQuery, minResults, queries, tierIndex, searchCalls,
          searchReturn,
          maxBuyArgs, maxBuyResult,
          identification, ebayService, scanResponse,
          scanData, sliderBuyPrice, excludedListings>>

profitVars == <<profitArgs, profitResult>>
overrideVars == <<overrideArgs, overrideResult>>
vestVars == <<market, vestInput, vestScore, targetGrade, suggestion>>
triVars == <<aiEstimate, ebayResponse, ebayData, triangulation>>
sellVars == <<sellArgs, sellResult>>
searchVars == <<originalQuery, minResults, queries, tierIndex, searchCalls,
                searchReturn>>
maxBuyVars == <<maxBuyArgs, maxBuyResult>>
scanVars == <<identification, ebayService, scanResponse>>
pageVars == <<scanData, sliderBuyPrice, excludedListings>>

\* The value of a record-valued variable that holds nothing (undefined / null).
None == [none |-> TRUE]

\* An optional number: <<>> when omitted (undefined), <<v>> when given.
Omitted == <<>>

Given(v) == <<v>>

\* ------------------------------------------------------------------------
\* Arithmetic helpers

Micro == 10000

Abs(x) == IF x < 0 THEN -x ELSE x

Min2(a, b) == IF a <= b THEN a ELSE b

Max2(a, b) == IF a >= b THEN a ELSE b

\* Math.round(n / d) for d > 0: the nearest integer, halves towards +infinity.
RoundDiv(n, d) == (2 * n + d) \div (2 * d)

\* How Math.round settles a value that is mathematically on a half.
Ties == {"up", "down"}

\* round(num) of the profit calculator, Math.round(num * 100) / 100:
\* micro-dollars to whole cents.  num * 100 is a double: when num is
\* mathematically a whole number of cents plus a half, the product lies a
\* rounding error below or above the half and Math.round gives either
\* neighbour; tie is the side it falls on.
roundTie(num, tie) ==
    IF num % Micro = Micro \div 2 /\ tie = "down"
    THEN RoundDiv(num, Micro) - 1
    ELSE RoundDiv(num, Micro)

\* round(num) with every half settled upwards, as in exact arithmetic.
round(num) == roundTie(num, "up")

\* ------------------------------------------------------------------------
\* Net profit calculator

\* Categories the model passes; "" is an omitted category (!category).
Categories == {"", "default", "books", "clothing", "fragile"}

SHIPPING_DEFAULTS(category) ==
    CASE category = "clothing" -> 600
      [] category = "books" -> 400
      [] category = "fragile" -> 1200
      [] OTHER -> 800

EBAY_FEE_RATES(category) ==
    CASE category = "books" -> 1455
      [] OTHER -> 1290

getShippingDefault(category) ==
    IF category = "" THEN SHIPPING_DEFAULTS("default")
    ELSE SHIPPING_DEFAULTS(category)

getEbayFeeRate(category) ==
    IF category = "" THEN EBAY_FEE_RATES("default")
    ELSE EBAY_FEE_RATES(category)

PaymentRate == 290

PaymentFlat == 30

MaxPromotedRate == 1500

\* input: [expectedSalePrice, buyPrice (cents), shippingCost (optional cents),
\*         category (string), promotedListingRate (basis points)]; tie is the
\* side on which the half cents of this call fall.
calculateNetProfitTie(input, tie) ==
    LET expectedSalePrice == input.expectedSalePrice
        buyPrice == input.buyPrice
        shipping == IF input.shippingCost # Omitted THEN input.shippingCost[1]
                    ELSE getShippingDefault(input.category)
        feeRate == getEbayFeeRate(input.category)
        ebayFinalValueFee == (expectedSalePrice + shipping) * feeRate
        paymentProcessingFee == expectedSalePrice * PaymentRate + PaymentFlat * Micro
        promotedListingFee ==
            expectedSalePrice * Min2(input.promotedListingRate, MaxPromotedRate)
        totalPlatformCosts ==
            ebayFinalValueFee + paymentProcessingFee + promotedListingFee
              + shipping * Micro
        netProfit == expectedSalePrice * Micro - totalPlatformCosts - buyPrice * Micro
        totalInvestment == buyPrice + shipping
        \* roi and effectiveMargin: percent, rounded to two decimals
        roi == IF totalInvestment > 0 THEN RoundDiv(netProfit, totalInvestment) ELSE 0
        effectiveMargin ==
            IF expectedSalePrice > 0 THEN RoundDiv(netProfit, expectedSalePrice) ELSE 0
    IN  [expectedSalePrice |-> roundTie(expectedSalePrice * Micro, tie),
         ebayFinalValueFee |-> roundTie(ebayFinalValueFee, tie),
         paymentProcessingFee |-> roundTie(paymentProcessingFee, tie),
         shippingCost |-> roundTie(shipping * Micro, tie),
         promotedListingFee |-> roundTie(promotedListingFee, tie),
         totalPlatformCosts |-> roundTie(totalPlatformCosts, tie),
         buyPrice |-> roundTie(buyPrice * Micro, tie),
         netProfit |-> roundTie(netProfit, tie),
         roi |-> roi,
         effectiveMargin |-> effectiveMargin]

\* calculateNetProfit with every half cent settled upwards.
calculateNetProfit(input) == calculateNetProfitTie(input, "up")

\* The result is in cents.  targetNetProfit is in cents, category is a string
\* ("" when omitted), shippingCost an optional number of cents.
findMaxBuyPriceForProfit(expectedSalePrice, targetNetProfit, category, shippingCost, tie) ==
    LET shipping == IF shippingCost # Omitted THEN shippingCost[1]
                    ELSE getShippingDefault(category)
        feeRate == getEbayFeeRate(category)
        ebayFee == (expectedSalePrice + shipping) * feeRate
        paymentFee == expectedSalePrice * PaymentRate + PaymentFlat * Micro
        platformCosts == ebayFee + paymentFee + shipping * Micro
        maxBuyPrice == expectedSalePrice * Micro - platformCosts
                         - targetNetProfit * Micro
    IN  Max2(0, roundTie(maxBuyPrice, tie))

\* ------------------------------------------------------------------------
\* Grades

Grades == {"A+", "A", "A-", "B+", "B", "B-", "C+", "C", "C-",
           "D+", "D", "D-", "F+", "F", "F-"}

\* Scores are hundredths of a point.
Pt == 100

GRADE_THRESHOLDS ==
    << <<95, "A+">>, <<90, "A">>, <<87, "A-">>,
       <<83, "B+">>, <<80, "B">>, <<77, "B-">>,
       <<73, "C+">>, <<70, "C">>, <<67, "C-">>,
       <<63, "D+">>, <<60, "D">>, <<57, "D-">>,
       <<53, "F+">>, <<50, "F">>, <<0, "F-">> >>

RECURSIVE scoreToGradeFrom(_, _)
scoreToGradeFrom(score, i) ==
    IF i > Len(GRADE_THRESHOLDS) THEN "F-"
    ELSE IF score >= GRADE_THRESHOLDS[i][1] * Pt THEN GRADE_THRESHOLDS[i][2]
    ELSE scoreToGradeFrom(score, i + 1)

scoreToGrade(score) == scoreToGradeFrom(score, 1)

scoreToRecommendation(score) ==
    IF score >= 85 * Pt THEN "strong-buy"
    ELSE IF score >= 70 * Pt THEN "buy"
    ELSE IF score >= 55 * Pt THEN "hold"
    ELSE IF score >= 40 * Pt THEN "pass"
    ELSE "strong-pass"

GRADE_VALUES ==
    [g \in Grades |->
        CASE g = "A+" -> 17 [] g = "A" -> 16 [] g = "A-" -> 15
          [] g = "B+" -> 14 [] g = "B" -> 13 [] g = "B-" -> 12
          [] g = "C+" -> 11 [] g = "C" -> 10 [] g = "C-" -> 9
          [] g = "D+" -> 8 [] g = "D" -> 7 [] g = "D-" -> 6
          [] g = "F+" -> 5 [] g = "F" -> 4 [] g = "F-" -> 3]

GRADE_MIN_SCORES ==
    [g \in Grades |->
        CASE g = "A+" -> 95 [] g = "A" -> 90 [] g = "A-" -> 87
          [] g = "B+" -> 83 [] g = "B" -> 80 [] g = "B-" -> 77
          [] g = "C+" -> 73 [] g = "C" -> 70 [] g = "C-" -> 67
          [] g = "D+" -> 63 [] g = "D" -> 60 [] g = "D-" -> 57
          [] g = "F+" -> 53 [] g = "F" -> 50 [] g = "F-" -> 0]

\* ------------------------------------------------------------------------
\* Grade override engine
\*
\* OverrideInput: score (hundredths of a point), grade, daysToSell (days),
\* netProfit (cents), grossMargin (basis points: 0.20 = 2000),
\* sellThroughRate (hundredths: 0.65 = 65).

OverrideRule(name, type, minimumGrade, reason) ==
    [name |-> name, type |-> type, minimumGrade |-> minimumGrade, reason |-> reason]

OVERRIDE_RULES ==
    << OverrideRule("LIGHTNING_FLIP", "velocity", "B+",
                    "Lightning fast seller (<=3 days) with good profit"),
       OverrideRule("CASH_FLOW_KING", "velocity", "B",
                    "Very fast velocity (<=5 days) with profit >=$5"),
       OverrideRule("VELOCITY_CHAMPION", "velocity", "B+",
                    "Fast velocity (<=7 days) with strong profit >=$10"),
       OverrideRule("VELOCITY_STANDARD", "velocity", "B-",
                    "Good velocity (<=10 days) with profit >=$10"),
       OverrideRule("QUICK_FLIP", "velocity", "B-",
                    "Quick flip opportunity with acceptable margins"),
       OverrideRule("PREMIUM_MARGIN", "margin", "B+",
                    "Exceptional margin (>=60%) with profit >=$30"),
       OverrideRule("HIGH_MARGIN_PLAY", "margin", "B",
                    "High margin (>=50%) with profit >=$25"),
       OverrideRule("SOLID_MARGIN", "margin", "B-",
                    "Solid margin (>=40%) with profit >=$20"),
       OverrideRule("HOT_MARKET", "market", "B",
                    "Very hot market (>=65% sell-through) with decent profit"),
       OverrideRule("ACTIVE_MARKET", "market", "B-",
                    "Active market (>=50% sell-through) with good profit") >>

\* condition with VELOCITY_CHAMPION asking for a profit of $20 instead of $10
condition_championProfit20(r, i) ==
    CASE r = 1 -> i.daysToSell <= 3 /\ i.netProfit >= 800 /\ i.grossMargin >= 2000
      [] r = 2 -> i.daysToSell <= 5 /\ i.netProfit >= 500
      [] r = 3 -> i.daysToSell <= 7 /\ i.netProfit >= 2000
      [] r = 4 -> i.daysToSell <= 10 /\ i.netProfit >= 1000
      [] r = 5 -> i.daysToSell <= 7 /\ i.netProfit >= 500 /\ i.grossMargin >= 2500
      [] r = 6 -> i.grossMargin >= 6000 /\ i.netProfit >= 3000
      [] r = 7 -> i.grossMargin >= 5000 /\ i.netProfit >= 2500
      [] r = 8 -> i.grossMargin >= 4000 /\ i.netProfit >= 2000
      [] r = 9 -> i.sellThroughRate >= 65 /\ i.netProfit >= 800
      [] r = 10 -> i.sellThroughRate >= 50 /\ i.netProfit >= 1000

\* rule.condition(input) of the rule declared at position r
condition(r, i) ==
    CASE r = 1 -> i.daysToSell <= 3 /\ i.netProfit >= 800 /\ i.grossMargin >= 2000
      [] r = 2 -> i.daysToSell <= 5 /\ i.netProfit >= 500
      [] r = 3 -> i.daysToSell <= 7 /\ i.netProfit >= 1000
      [] r = 4 -> i.daysToSell <= 10 /\ i.netProfit >= 1000
      [] r = 5 -> i.daysToSell <= 7 /\ i.netProfit >= 500 /\ i.grossMargin >= 2500
      [] r = 6 -> i.grossMargin >= 6000 /\ i.netProfit >= 3000
      [] r = 7 -> i.grossMargin >= 5000 /\ i.netProfit >= 2500
      [] r = 8 -> i.grossMargin >= 4000 /\ i.netProfit >= 2000
      [] r = 9 -> i.sellThroughRate >= 65 /\ i.netProfit >= 800
      [] r = 10 -> i.sellThroughRate >= 50 /\ i.netProfit >= 1000

\* keepBest without the test that the rule improves the grade
keepBest_noImprovementTest(input, best, r) ==
    LET rule == OVERRIDE_RULES[r]
        ruleGradeValue == GRADE_VALUES[rule.minimumGrade]
    IN  IF condition(r, input)
           /\ (best = None \/ ruleGradeValue > best.gradeValue)
        THEN [grade |-> rule.minimumGrade,
              reason |-> <<rule.name, rule.reason>>,
              type |-> rule.type, gradeValue |-> ruleGradeValue]
        ELSE best

\* keepBest replacing the best override on a tie (>= for >): last rule wins
keepBest_lastWins(input, best, r) ==
    LET rule == OVERRIDE_RULES[r]
        ruleGradeValue == GRADE_VALUES[rule.minimumGrade]
    IN  IF condition(r, input)
           /\ ruleGradeValue > GRADE_VALUES[input.grade]
           /\ (best = None \/ ruleGradeValue >= best.gradeValue)
        THEN [grade |-> rule.minimumGrade,
              reason |-> <<rule.name, rule.reason>>,
              type |-> rule.type, gradeValue |-> ruleGradeValue]
        ELSE best

\* One iteration of the rule loop: the bestOverride after looking at rule r.
\* best is None or [grade, reason, type, gradeValue]; the reason string
\* `${rule.name}: ${rule.reason}` is the pair of its two parts.
keepBest(input, best, r) ==
    LET rule == OVERRIDE_RULES[r]
        ruleGradeValue == GRADE_VALUES[rule.minimumGrade]
    IN  IF condition(r, input)
           /\ ruleGradeValue > GRADE_VALUES[input.grade]
           /\ (best = None \/ ruleGradeValue > best.gradeValue)
        THEN [grade |-> rule.minimumGrade,
              reason |-> <<rule.name, rule.reason>>,
              type |-> rule.type, gradeValue |-> ruleGradeValue]
        ELSE best

RECURSIVE bestOverrideFrom(_, _, _)
bestOverrideFrom(input, best, r) ==
    IF r > Len(OVERRIDE_RULES) THEN best
    ELSE bestOverrideFrom(input, keepBest(input, best, r), r + 1)

applyGradeOverride(input) ==
    LET bestOverride == bestOverrideFrom(input, None, 1)
    IN  IF bestOverride # None
        THEN [originalGrade |-> input.grade,
              originalScore |-> input.score,
              finalGrade |-> bestOverride.grade,
              finalScore |-> Max2(input.score, GRADE_MIN_SCORES[bestOverride.grade] * Pt),
              overrideApplied |-> TRUE,
              overrideReason |-> bestOverride.reason,
              overrideType |-> bestOverride.type]
        ELSE [originalGrade |-> input.grade,
              originalScore |-> input.score,
              finalGrade |-> input.grade,
              finalScore |-> input.score,
              overrideApplied |-> FALSE,
              overrideReason |-> <<>>,
              overrideType |-> "null"]

\* ------------------------------------------------------------------------
\* V.E.S.T. component scorers
\*
\* MarketSummary: prices in cents, counts, avgDaysToSell in days,
\* sellThroughRate and priceVolatility in hundredths.
\* ComponentScore: normalized and weighted in hundredths of a point, weight
\* in percent.

ComponentScore(normalized, weight) ==
    [normalized |-> normalized,
     weighted |-> (normalized * weight) \div 100,
     weight |-> weight]

\* calculateVelocity without the cap of the volume score at 40 points
calculateVelocity_uncappedVolume(m) ==
    LET weight == 40
        volumeScore == m.totalSold30Days * 40
        daysScore == IF m.avgDaysToSell < 3 THEN 30
                     ELSE IF m.avgDaysToSell < 7 THEN 25
                     ELSE IF m.avgDaysToSell < 14 THEN 15
                     ELSE IF m.avgDaysToSell < 30 THEN 10
                     ELSE 5
        strScore == IF m.sellThroughRate > 80 THEN 30
                    ELSE IF m.sellThroughRate > 60 THEN 20
                    ELSE IF m.sellThroughRate > 40 THEN 15
                    ELSE 5
        normalized == volumeScore + daysScore * Pt + strScore * Pt
    IN  ComponentScore(normalized, weight)

calculateVelocity(m) ==
    LET weight == 40
        volumeScore == Min2(40 * Pt, m.totalSold30Days * 40)
        daysScore == IF m.avgDaysToSell < 3 THEN 30
                     ELSE IF m.avgDaysToSell < 7 THEN 25
                     ELSE IF m.avgDaysToSell < 14 THEN 15
                     ELSE IF m.avgDaysToSell < 30 THEN 10
                     ELSE 5
        strScore == IF m.sellThroughRate > 80 THEN 30
                    ELSE IF m.sellThroughRate > 60 THEN 20
                    ELSE IF m.sellThroughRate > 40 THEN 15
                    ELSE 5
        normalized == volumeScore + daysScore * Pt + strScore * Pt
    IN  ComponentScore(normalized, weight)

DefaultEstimatedFees == 13

DefaultShippingCost == 500

\* One dollar in the unit of calculateEquity's netProfit (hundredths of a cent).
EquityDollar == 10000

\* input: [buyPrice (cents), shippingCost (optional cents)]; estimatedFees is
\* never passed by calculateVestScore, so it is the default 0.13.
\* netProfit here is in hundredths of a cent.
calculateEquity(m, input) ==
    LET weight == 40
        buyPrice == input.buyPrice
        estimatedFees == DefaultEstimatedFees
        shippingCost == IF input.shippingCost # Omitted THEN input.shippingCost[1]
                        ELSE DefaultShippingCost
        expectedSellPrice == m.medianSoldPrice
        totalCost == buyPrice + shippingCost
        fees == expectedSellPrice * estimatedFees
        netProfit == expectedSellPrice * 100 - totalCost * 100 - fees
        \* grossMargin >= t/100, with grossMargin = 0 when the price is not positive
        marginAtLeast(t) == IF expectedSellPrice > 0
                            THEN netProfit >= t * expectedSellPrice
                            ELSE 0 >= t
        roiAtLeast(t) == IF totalCost > 0
                         THEN netProfit >= t * totalCost
                         ELSE 0 >= t
        marginScore == IF marginAtLeast(50) THEN 50
                       ELSE IF marginAtLeast(40) THEN 40
                       ELSE IF marginAtLeast(30) THEN 30
                       ELSE IF marginAtLeast(20) THEN 20
                       ELSE IF marginAtLeast(10) THEN 10
                       ELSE IF marginAtLeast(0) THEN 5
                       ELSE 0
        roiScore == IF roiAtLeast(100) THEN 30
                    ELSE IF roiAtLeast(75) THEN 25
                    ELSE IF roiAtLeast(50) THEN 20
                    ELSE IF roiAtLeast(25) THEN 15
                    ELSE IF roiAtLeast(0) THEN 5
                    ELSE 0
        dollarScore == IF netProfit >= 50 * EquityDollar THEN 20
                       ELSE IF netProfit >= 30 * EquityDollar THEN 15
                       ELSE IF netProfit >= 15 * EquityDollar THEN 10
                       ELSE IF netProfit >= 5 * EquityDollar THEN 5
                       ELSE 0
        normalized == (marginScore + roiScore + dollarScore) * Pt
    IN  [normalized |-> normalized,
         weighted |-> (normalized * weight) \div 100,
         weight |-> weight,
         \* cents
         netProfit |-> RoundDiv(netProfit, 100),
         \* tenths of a percent
         roi |-> IF totalCost > 0 THEN RoundDiv(netProfit * 10, totalCost) ELSE 0,
         grossMargin |-> IF expectedSellPrice > 0
                         THEN RoundDiv(netProfit * 10, expectedSellPrice) ELSE 0]

calculateStability(m) ==
    LET weight == 10
        volatilityScore == IF m.priceVolatility < 10 THEN 50
                           ELSE IF m.priceVolatility < 20 THEN 40
                           ELSE IF m.priceVolatility < 30 THEN 25
                           ELSE 10
        spreadBelow(t) == IF m.medianSoldPrice > 0
                          THEN (m.maxSoldPrice - m.minSoldPrice) * 100 < t * m.medianSoldPrice
                          ELSE 100 < t
        spreadScore == IF spreadBelow(30) THEN 30
                       ELSE IF spreadBelow(50) THEN 20
                       ELSE IF spreadBelow(75) THEN 10
                       ELSE 5
        hasSold == m.totalSold30Days > 0
        \* supplyRatio = activeListingCount / totalSold30Days, 2 without sales
        supplyScore ==
            IF hasSold /\ m.activeListingCount * 10 > m.totalSold30Days
                       /\ m.activeListingCount * 2 < m.totalSold30Days THEN 20
            ELSE IF hasSold /\ m.activeListingCount * 20 >= m.totalSold30Days
                            /\ m.activeListingCount <= m.totalSold30Days THEN 15
            ELSE 5
        normalized == (volatilityScore + spreadScore + supplyScore) * Pt
    IN  ComponentScore(normalized, weight)

calculateTrend(m) ==
    LET weight == 10
        \* volumeTrendRatio = totalSold30Days / (totalSold90Days / 3), 1 if no sales
        volumeAbove(t) == IF m.totalSold90Days > 0
                          THEN m.totalSold30Days * 300 > t * m.totalSold90Days
                          ELSE 100 > t
        volumeScore == IF volumeAbove(120) THEN 50
                       ELSE IF volumeAbove(105) THEN 40
                       ELSE IF volumeAbove(95) THEN 30
                       ELSE IF volumeAbove(80) THEN 15
                       ELSE 5
        priceAbove(t) == IF m.avgSoldPrice > 0
                         THEN m.avgActivePrice * 100 > t * m.avgSoldPrice
                         ELSE 100 > t
        priceScore == IF priceAbove(110) THEN 50
                      ELSE IF priceAbove(102) THEN 40
                      ELSE IF priceAbove(98) THEN 30
                      ELSE IF priceAbove(90) THEN 15
                      ELSE 5
        normalized == (volumeScore + priceScore) * Pt
    IN  ComponentScore(normalized, weight)

\* ------------------------------------------------------------------------
\* calculateVestScore and suggestBuyPrice

\* the score before the override, as the scoring did before overrides existed
finalScoreOf_rawTotal(gradeOverride) == gradeOverride.originalScore

\* The score the grade, total and recommendation are taken from.
finalScoreOf(gradeOverride) == gradeOverride.finalScore

\* input: [buyPrice (cents), shippingCost (optional cents)]
calculateVestScore(m, input) ==
    LET buyPrice == input.buyPrice
        shippingCost == IF input.shippingCost # Omitted THEN input.shippingCost[1]
                        ELSE DefaultShippingCost
        velocity == calculateVelocity(m)
        equityResult == calculateEquity(m, [buyPrice |-> buyPrice,
                                            shippingCost |-> Given(shippingCost)])
        stability == calculateStability(m)
        trend == calculateTrend(m)
        profitBreakdown ==
            calculateNetProfit([expectedSalePrice |-> m.medianSoldPrice,
                                buyPrice |-> buyPrice,
                                shippingCost |-> Given(shippingCost),
                                category |-> "",
                                promotedListingRate |-> 0])
        rawTotal == velocity.weighted + equityResult.weighted
                      + stability.weighted + trend.weighted
        rawGrade == scoreToGrade(rawTotal)
        overrideInput == [score |-> rawTotal,
                           grade |-> rawGrade,
                           daysToSell |-> m.avgDaysToSell,
                           netProfit |-> profitBreakdown.netProfit,
                           grossMargin |-> profitBreakdown.effectiveMargin,
                           sellThroughRate |-> m.sellThroughRate]
        gradeOverride == applyGradeOverride(overrideInput)
        finalScore == finalScoreOf(gradeOverride)
        finalGrade == gradeOverride.finalGrade
        recommendation == scoreToRecommendation(finalScore)
    IN  [\* Math.round(finalScore * 10) / 10: tenths of a point
         total |-> RoundDiv(finalScore, 10),
         grade |-> finalGrade,
         components |-> [velocity |-> velocity, equity |-> equityResult,
                         stability |-> stability, trend |-> trend],
         recommendation |-> recommendation,
         estimatedProfit |-> profitBreakdown.netProfit,
         roi |-> profitBreakdown.roi,
         profitBreakdown |-> profitBreakdown,
         gradeOverride |-> IF gradeOverride.overrideApplied THEN gradeOverride ELSE None]

TargetGrades == {"A", "B", "C"}

\* The result is in cents (a whole number of dollars).
suggestBuyPrice(m, target) ==
    LET targetScore == IF target = "A" THEN 90 ELSE IF target = "B" THEN 80 ELSE 70
        medianPrice == m.medianSoldPrice
        \* neededEquityWeighted = (targetScore - 50) / 0.4 * 0.4
        neededEquityWeighted == targetScore - 50
        \* targetMargin = neededEquityWeighted / 0.4 / 100 + 0.1, in 1/40
        targetMargin40 == neededEquityWeighted + 4
        \* suggestedBuy = medianPrice * (1 - targetMargin) - medianPrice * 0.13 - 5
        \* in dollars, as a fraction over 20000
        suggestedBuy == medianPrice * (40 - targetMargin40) * 5
                          - medianPrice * 26 - 5 * 20000
    IN  Max2(0, RoundDiv(suggestedBuy, 20000)) * 100

\* ------------------------------------------------------------------------
\* Price triangulation
\*
\* A price that is not rounded by the code is an exact fraction of cents,
\* [n |-> numerator, d |-> denominator] with d > 0.

Rat(n, d) == [n |-> n, d |-> d]

RatLe(a, b) == a.n * b.d <= b.n * a.d

\* a * pct / 100
RatPct(a, pct) == Rat(a.n * pct, a.d * 100)

\* The listings of a search response are a bag: listings[p] is the number of
\* returned items whose parsed currentPrice is p cents.
ListingCount(listings) ==
    LET RECURSIVE total(_)
        total(ps) == IF ps = {} THEN 0
                     ELSE LET p == CHOOSE q \in ps : TRUE
                          IN  listings[p] + total(ps \ {p})
    IN  total(DOMAIN listings)

ListingSum(listings, ps) ==
    LET RECURSIVE total(_)
        total(qs) == IF qs = {} THEN 0
                     ELSE LET p == CHOOSE q \in qs : TRUE
                          IN  p * listings[p] + total(qs \ {p})
    IN  total(ps)

\* searchEbayListings: the listings and totalActive = data.total || length;
\* response.total = 0 stands for a missing or zero total.
totalActiveOf(response) ==
    IF response.total # 0 THEN response.total ELSE ListingCount(response.listings)

\* The asking-price statistics fetchEbayMarketData takes from a response.
ebayStats(response) ==
    LET listings == response.listings
        \* active.map(l => l.currentPrice).filter(p => p > 0)
        activePrices == {p \in DOMAIN listings : p > 0 /\ listings[p] > 0}
        length == ListingCount([p \in activePrices |-> listings[p]])
        minOf(ps) == CHOOSE p \in ps : \A q \in ps : p <= q
        maxOf(ps) == CHOOSE p \in ps : \A q \in ps : p >= q
    IN  [avgPrice |-> IF length > 0 THEN Rat(ListingSum(listings, activePrices), length)
                      ELSE Rat(0, 1),
         minPrice |-> IF length > 0 THEN minOf(activePrices) ELSE 0,
         maxPrice |-> IF length > 0 THEN maxOf(activePrices) ELSE 0,
         listingCount |-> totalActiveOf(response),
         activeLength |-> length]

\* weightedTriangulation with the AI-only discounts of low and high swapped
weightedTriangulation_swappedDiscounts(ai, data, blendReasoning) ==
    LET n == data.listingCount
        ebayWeight == IF n >= 10 THEN 75 ELSE IF n >= 5 THEN 50 ELSE 30
        dataQuality == IF n >= 10 THEN "high" ELSE IF n >= 5 THEN "medium" ELSE "low"
        aiWeight == 100 - ebayWeight
        \* ebayAdjusted = (minPrice * 0.8, avgPrice * 0.8, maxPrice * 0.85)
        finalLow == Rat(ai.low * aiWeight * 100 + data.minPrice * 80 * ebayWeight, 10000)
        finalMid == Rat(ai.mid * aiWeight * 100 * data.avgPrice.d
                          + data.avgPrice.n * 80 * ebayWeight,
                        10000 * data.avgPrice.d)
        finalHigh == Rat(ai.high * aiWeight * 100 + data.maxPrice * 85 * ebayWeight, 10000)
        recommendation == IF dataQuality = "high" /\ n > 15 THEN "buy"
                          ELSE IF n < 3 THEN "pass"
                          ELSE "maybe"
    IN  IF n >= 1
        THEN [low |-> Rat(RoundDiv(finalLow.n, finalLow.d), 1),
              mid |-> Rat(RoundDiv(finalMid.n, finalMid.d), 1),
              high |-> Rat(RoundDiv(finalHigh.n, finalHigh.d), 1),
              confidence |-> ebayWeight + 20,
              dataQuality |-> dataQuality,
              reasoning |-> blendReasoning,
              recommendation |-> recommendation]
        ELSE [low |-> Rat(ai.low * 90, 100),
              mid |-> Rat(ai.mid * 85, 100),
              high |-> Rat(ai.high * 80, 100),
              confidence |-> 40,
              dataQuality |-> "low",
              reasoning |-> "No eBay listings found",
              recommendation |-> "maybe"]

\* weightedTriangulation adjusting the eBay maximum by 0.8 instead of 0.85
weightedTriangulation_highAdjusted80(ai, data, blendReasoning) ==
    LET n == data.listingCount
        ebayWeight == IF n >= 10 THEN 75 ELSE IF n >= 5 THEN 50 ELSE 30
        dataQuality == IF n >= 10 THEN "high" ELSE IF n >= 5 THEN "medium" ELSE "low"
        aiWeight == 100 - ebayWeight
        \* ebayAdjusted = (minPrice * 0.8, avgPrice * 0.8, maxPrice * 0.85)
        finalLow == Rat(ai.low * aiWeight * 100 + data.minPrice * 80 * ebayWeight, 10000)
        finalMid == Rat(ai.mid * aiWeight * 100 * data.avgPrice.d
                          + data.avgPrice.n * 80 * ebayWeight,
                        10000 * data.avgPrice.d)
        finalHigh == Rat(ai.high * aiWeight * 100 + data.maxPrice * 80 * ebayWeight, 10000)
        recommendation == IF dataQuality = "high" /\ n > 15 THEN "buy"
                          ELSE IF n < 3 THEN "pass"
                          ELSE "maybe"
    IN  IF n >= 1
        THEN [low |-> Rat(RoundDiv(finalLow.n, finalLow.d), 1),
              mid |-> Rat(RoundDiv(finalMid.n, finalMid.d), 1),
              high |-> Rat(RoundDiv(finalHigh.n, finalHigh.d), 1),
              confidence |-> ebayWeight + 20,
              dataQuality |-> dataQuality,
              reasoning |-> blendReasoning,
              recommendation |-> recommendation]
        ELSE [low |-> Rat(ai.low * 80, 100),
              mid |-> Rat(ai.mid * 85, 100),
              high |-> Rat(ai.high * 90, 100),
              confidence |-> 40,
              dataQuality |-> "low",
              reasoning |-> "No eBay listings found",
              recommendation |-> "maybe"]

\* weightedTriangulation without the early return for n = 0: the estimate is
\* blended with the (all zero) listing statistics at the lowest weight
weightedTriangulation_blendsAtZero(ai, data, blendReasoning) ==
    LET n == data.listingCount
        ebayWeight == IF n >= 10 THEN 75 ELSE IF n >= 5 THEN 50 ELSE 30
        dataQuality == IF n >= 10 THEN "high" ELSE IF n >= 5 THEN "medium" ELSE "low"
        aiWeight == 100 - ebayWeight
        finalLow == Rat(ai.low * aiWeight * 100 + data.minPrice * 80 * ebayWeight, 10000)
        finalMid == Rat(ai.mid * aiWeight * 100 * data.avgPrice.d
                          + data.avgPrice.n * 80 * ebayWeight,
                        10000 * data.avgPrice.d)
        finalHigh == Rat(ai.high * aiWeight * 100 + data.maxPrice * 85 * ebayWeight, 10000)
        recommendation == IF dataQuality = "high" /\ n > 15 THEN "buy"
                          ELSE IF n < 3 THEN "pass"
                          ELSE "maybe"
    IN  [low |-> Rat(RoundDiv(finalLow.n, finalLow.d), 1),
         mid |-> Rat(RoundDiv(finalMid.n, finalMid.d), 1),
         high |-> Rat(RoundDiv(finalHigh.n, finalHigh.d), 1),
         confidence |-> IF n >= 1 THEN ebayWeight + 20 ELSE 40,
         dataQuality |-> dataQuality,
         reasoning |-> IF n >= 1 THEN blendReasoning ELSE "No eBay listings found",
         recommendation |-> IF n >= 1 THEN recommendation ELSE "maybe"]

\* The weighted blend of both triangulation functions; reasoning names the
\* path by the first words of the message.  Weights and confidence are in
\* percent, low/mid/high in cents.
weightedTriangulation(ai, data, blendReasoning) ==
    LET n == data.listingCount
        ebayWeight == IF n >= 10 THEN 75 ELSE IF n >= 5 THEN 50 ELSE 30
        dataQuality == IF n >= 10 THEN "high" ELSE IF n >= 5 THEN "medium" ELSE "low"
        aiWeight == 100 - ebayWeight
        \* ebayAdjusted = (minPrice * 0.8, avgPrice * 0.8, maxPrice * 0.85)
        finalLow == Rat(ai.low * aiWeight * 100 + data.minPrice * 80 * ebayWeight, 10000)
        finalMid == Rat(ai.mid * aiWeight * 100 * data.avgPrice.d
                          + data.avgPrice.n * 80 * ebayWeight,
                        10000 * data.avgPrice.d)
        finalHigh == Rat(ai.high * aiWeight * 100 + data.maxPrice * 85 * ebayWeight, 10000)
        recommendation == IF dataQuality = "high" /\ n > 15 THEN "buy"
                          ELSE IF n < 3 THEN "pass"
                          ELSE "maybe"
    IN  IF n >= 1
        THEN [low |-> Rat(RoundDiv(finalLow.n, finalLow.d), 1),
              mid |-> Rat(RoundDiv(finalMid.n, finalMid.d), 1),
              high |-> Rat(RoundDiv(finalHigh.n, finalHigh.d), 1),
              confidence |-> ebayWeight + 20,
              dataQuality |-> dataQuality,
              reasoning |-> blendReasoning,
              recommendation |-> recommendation]
        ELSE [low |-> Rat(ai.low * 80, 100),
              mid |-> Rat(ai.mid * 85, 100),
              high |-> Rat(ai.high * 90, 100),
              confidence |-> 40,
              dataQuality |-> "low",
              reasoning |-> "No eBay listings found",
              recommendation |-> "maybe"]

calculateTriangulatedPrice(ai, data) ==
    weightedTriangulation(ai, data, "Weighted eBay/AI")

calculateFallbackTriangulation(ai, data) ==
    weightedTriangulation(ai, data, "Weighted eBay data/AI estimate")

\* The triangulation part of fetchEbayMarketData.
triangulatedPrices(ai, response) ==
    LET data == ebayStats(response)
        totalActive == data.listingCount
    IN  IF ai # None /\ ai.mid > 0
        THEN calculateTriangulatedPrice(ai, data)
        ELSE IF data.activeLength > 0
        THEN [low |-> RatPct(Rat(data.minPrice, 1), 80),
              mid |-> RatPct(data.avgPrice, 80),
              high |-> RatPct(Rat(data.maxPrice, 1), 85),
              confidence |-> IF totalActive >= 10 THEN 70
                             ELSE IF totalActive >= 5 THEN 50 ELSE 30,
              dataQuality |-> IF totalActive >= 10 THEN "high"
                              ELSE IF totalActive >= 5 THEN "medium" ELSE "low",
              reasoning |-> "Based on eBay listings",
              recommendation |-> "maybe"]
        ELSE [low |-> Rat(500, 1),
              mid |-> Rat(1500, 1),
              high |-> Rat(3000, 1),
              confidence |-> 10,
              dataQuality |-> "low",
              reasoning |-> "No market data available",
              recommendation |-> "pass"]

\* ------------------------------------------------------------------------
\* Sell-through estimation
\*
\* Rates are in basis points (0.65 is 6500) until the result is rounded to
\* hundredths (estimatedRate 65 is 0.65); prices are in cents.

DemandLevels == {"high", "medium", "low"}

DEMAND_BASE_STR(demandLevel) ==
    CASE demandLevel = "high" -> 6500
      [] demandLevel = "medium" -> 4000
      [] demandLevel = "low" -> 2000
      [] OTHER -> 4000

DEMAND_BASE_DAYS(demandLevel) ==
    CASE demandLevel = "high" -> 5
      [] demandLevel = "medium" -> 12
      [] demandLevel = "low" -> 25
      [] OTHER -> 12

\* What one adjustment adds to str and daysToSell, and what it pushes on
\* adjustments.
Adjustment(str, days, pushed) == [str |-> str, days |-> days, pushed |-> pushed]

\* densityAdjustment with independent tests instead of an else-if chain
densityAdjustment_cumulative(activeListingCount) ==
    LET scarce == activeListingCount < 5
        low == activeListingCount < 10
    IN  IF low
        THEN Adjustment((IF scarce THEN 1500 ELSE 0) + 1000,
                        (IF scarce THEN -3 ELSE 0) - 2,
                        (IF scarce THEN <<"+15% STR (scarce: <5 listings)">> ELSE <<>>)
                          \o <<"+10% STR (low supply: <10 listings)">>)
        ELSE IF activeListingCount > 100
        THEN Adjustment(-1500, 7, <<"-15% STR (very saturated: >100 listings)">>)
        ELSE IF activeListingCount > 50
        THEN Adjustment(-1000, 4, <<"-10% STR (saturated: >50 listings)">>)
        ELSE Adjustment(0, 0, <<>>)

\* Adjustment 1: active listing density.
densityAdjustment(activeListingCount) ==
    IF activeListingCount < 5
    THEN Adjustment(1500, -3, <<"+15% STR (scarce: <5 listings)">>)
    ELSE IF activeListingCount < 10
    THEN Adjustment(1000, -2, <<"+10% STR (low supply: <10 listings)">>)
    ELSE IF activeListingCount > 100
    THEN Adjustment(-1500, 7, <<"-15% STR (very saturated: >100 listings)">>)
    ELSE IF activeListingCount > 50
    THEN Adjustment(-1000, 4, <<"-10% STR (saturated: >50 listings)">>)
    ELSE Adjustment(0, 0, <<>>)

\* Adjustment 2: price position; priceRatio = aiPriceEstimate / ebayMedianPrice
\* is compared by cross-multiplication.
pricePositionAdjustment(aiPriceEstimate, ebayMedianPrice) ==
    IF ebayMedianPrice > 0
    THEN IF aiPriceEstimate * 100 < 70 * ebayMedianPrice
         THEN Adjustment(1500, -3, <<"+15% STR (significantly underpriced)">>)
         ELSE IF aiPriceEstimate * 100 < 85 * ebayMedianPrice
         THEN Adjustment(800, -2, <<"+8% STR (priced below market)">>)
         ELSE IF aiPriceEstimate * 100 > 130 * ebayMedianPrice
         THEN Adjustment(-1200, 5, <<"-12% STR (priced above market)">>)
         ELSE IF aiPriceEstimate * 100 > 110 * ebayMedianPrice
         THEN Adjustment(-500, 2, <<"-5% STR (slightly above market)">>)
         ELSE Adjustment(0, 0, <<>>)
    ELSE Adjustment(0, 0, <<>>)

\* estimateSellThroughRate without the clamps of str and daysToSell
estimateSellThroughRate_unclamped(input) ==
    LET density == densityAdjustment(input.activeListingCount)
        position == pricePositionAdjustment(input.aiPriceEstimate, input.ebayMedianPrice)
        str == DEMAND_BASE_STR(input.demandLevel) + density.str + position.str
        daysToSell == DEMAND_BASE_DAYS(input.demandLevel) + density.days + position.days
    IN  [estimatedRate |-> RoundDiv(str, 100),
         marketType |-> IF str > 5500 THEN "sellers"
                        ELSE IF str >= 3500 THEN "balanced" ELSE "buyers",
         pricingStrategy |-> IF str > 5500 THEN "aggressive"
                             ELSE IF str >= 3500 THEN "moderate" ELSE "conservative",
         adjustments |-> density.pushed \o position.pushed,
         estimatedDaysToSell |-> daysToSell]

estimateSellThroughRate(input) ==
    LET density == densityAdjustment(input.activeListingCount)
        position == pricePositionAdjustment(input.aiPriceEstimate, input.ebayMedianPrice)
        \* Clamp to valid ranges
        str == Max2(500, Min2(9500, DEMAND_BASE_STR(input.demandLevel)
                                      + density.str + position.str))
        daysToSell == Max2(1, Min2(45, DEMAND_BASE_DAYS(input.demandLevel)
                                         + density.days + position.days))
    IN  [\* Math.round(str * 100) / 100, in hundredths
         estimatedRate |-> RoundDiv(str, 100),
         marketType |-> IF str > 5500 THEN "sellers"
                        ELSE IF str >= 3500 THEN "balanced" ELSE "buyers",
         pricingStrategy |-> IF str > 5500 THEN "aggressive"
                             ELSE IF str >= 3500 THEN "moderate" ELSE "conservative",
         adjustments |-> density.pushed \o position.pushed,
         \* Math.round of a whole number of days
         estimatedDaysToSell |-> daysToSell]

\* ------------------------------------------------------------------------
\* Keyword broadener
\*
\* A query string is a sequence of tokens: words, the space " " and the
\* comma ",".  Two words are never adjacent in a query (they would be one
\* longer word), so every word token stands between word boundaries.

Words == {"Sony", "sony", "tv", "used", "copper", "rare", "steel", "large"}

\* String.length of one token
Chars(token) ==
    CASE token \in {"Sony", "sony", "used", "rare"} -> 4
      [] token \in {"steel", "large"} -> 5
      [] token = "copper" -> 6
      [] token = "tv" -> 2
      [] OTHER -> 1

RECURSIVE length(_)
length(query) ==
    IF query = <<>> THEN 0 ELSE Chars(Head(query)) + length(Tail(query))

toLowerCase(query) ==
    [i \in 1..Len(query) |-> IF query[i] = "Sony" THEN "sony" ELSE query[i]]

\* query.replace(/[class]+/g, ' '): every maximal run of tokens of the class
\* becomes one space.
RECURSIVE replaceRuns(_, _)
replaceRuns(query, class) ==
    IF query = <<>> THEN <<>>
    ELSE IF Head(query) \in class
    THEN IF Len(query) > 1 /\ query[2] \in class
         THEN replaceRuns(Tail(query), class)
         ELSE <<" ">> \o replaceRuns(Tail(query), class)
    ELSE <<Head(query)>> \o replaceRuns(Tail(query), class)

RECURSIVE trim(_)
trim(query) ==
    IF query = <<>> THEN <<>>
    ELSE IF Head(query) = " " THEN trim(Tail(query))
    ELSE IF query[Len(query)] = " " THEN trim(SubSeq(query, 1, Len(query) - 1))
    ELSE query

\* The entries of the word lists that occur in the queries considered, in
\* the order of the source.
CONDITION_WORDS == <<"used">>

COLOR_WORDS == <<"copper">>

SUBJECTIVE_WORDS == <<"rare">>

MATERIAL_WORDS == <<"steel", "copper">>

\* The tokens each size pattern matches.
SIZE_PATTERNS == <<{}, {"large"}, {}, {}>>

\* [...words].sort((a, b) => b.length - a.length), a stable sort
RECURSIVE sortByLength(_)
sortByLength(words) ==
    IF words = <<>> THEN <<>>
    ELSE LET rest == sortByLength(Tail(words))
             w == Head(words)
             \* w goes before the first sorted word that is not longer
             longer == {i \in 1..Len(rest) :
                          \A j \in 1..i : Chars(rest[j]) > Chars(w)}
             k == Cardinality(longer)
         IN  SubSeq(rest, 1, k) \o <<w>> \o SubSeq(rest, k + 1, Len(rest))

\* result.replace(regex, ' ') for a word or a pattern
replaceTokens(query, tokens) ==
    [i \in 1..Len(query) |-> IF query[i] \in tokens THEN " " ELSE query[i]]

RECURSIVE stripSorted(_, _, _)
stripSorted(result, sortedWords, stripped) ==
    IF sortedWords = <<>> THEN [result |-> result, stripped |-> stripped]
    ELSE LET word == Head(sortedWords)
         IN  IF \E i \in 1..Len(result) : result[i] = word
             THEN stripSorted(replaceTokens(result, {word}), Tail(sortedWords),
                              Append(stripped, word))
             ELSE stripSorted(result, Tail(sortedWords), stripped)

\* stripWords returns the stripped query; the words it pushed are returned
\* with it.
stripWords(query, words, stripped) ==
    stripSorted(toLowerCase(query), sortByLength(words), stripped)

\* .replace(/[,;:]+/g, ' ').replace(/\s+/g, ' ').trim()
cleanUp(query) == trim(replaceRuns(replaceRuns(query, {","}), {" "}))

\* Tier 2: strip condition, color, subjective terms.
tier2Of(tier1Query) ==
    LET c == stripWords(tier1Query, CONDITION_WORDS, <<>>)
        k == stripWords(c.result, COLOR_WORDS, c.stripped)
        j == stripWords(k.result, SUBJECTIVE_WORDS, k.stripped)
    IN  [query |-> cleanUp(j.result), stripped |-> j.stripped]

RECURSIVE stripPatterns(_, _, _)
stripPatterns(result, patterns, stripped) ==
    IF patterns = <<>> THEN [result |-> result, stripped |-> stripped]
    ELSE LET pattern == Head(patterns)
             \* tier3Query.match(pattern): every match, in order
             matches == SelectSeq(result, LAMBDA t : t \in pattern)
         IN  IF matches # <<>>
             THEN stripPatterns(replaceTokens(result, pattern), Tail(patterns),
                                stripped \o matches)
             ELSE stripPatterns(result, Tail(patterns), stripped)

\* tier3Of starting its stripped terms from an empty list
tier3Of_freshStripped(tier1Query, tier2Query, tier2Stripped) ==
    LET m == stripWords(IF tier2Query # <<>> THEN tier2Query ELSE tier1Query,
                        MATERIAL_WORDS, <<>>)
        z == stripPatterns(m.result, SIZE_PATTERNS, m.stripped)
    IN  [query |-> cleanUp(z.result), stripped |-> z.stripped]

\* Tier 3: strip materials and sizes.
tier3Of(tier1Query, tier2Query, tier2Stripped) ==
    LET m == stripWords(IF tier2Query # <<>> THEN tier2Query ELSE tier1Query,
                        MATERIAL_WORDS, tier2Stripped)
        z == stripPatterns(m.result, SIZE_PATTERNS, m.stripped)
    IN  [query |-> cleanUp(z.result), stripped |-> z.stripped]

\* Confidence is in thousandths.
BroadenResult(query, tier, confidence, strippedTerms) ==
    [query |-> query, tier |-> tier, confidence |-> confidence,
     strippedTerms |-> strippedTerms]

\* broadenQuery adding Tier 2 and Tier 3 without the length tests
broadenQuery_noLengthTest(query) ==
    LET tier1Query == trim(replaceRuns(query, {" "}))
        tier2 == tier2Of(tier1Query)
        tier3 == tier3Of(tier1Query, tier2.query, tier2.stripped)
        tier2QueryLower ==
            toLowerCase(IF tier2.query # <<>> THEN tier2.query ELSE tier1Query)
    IN  <<BroadenResult(tier1Query, 1, 1000, <<>>)>>
        \o (IF /\ tier2.query # toLowerCase(tier1Query)
               /\ tier2.stripped # <<>>
            THEN <<BroadenResult(tier2.query, 2, 850, tier2.stripped)>>
            ELSE <<>>)
        \o (IF toLowerCase(tier3.query) # tier2QueryLower
            THEN <<BroadenResult(tier3.query, 3, 700, tier3.stripped)>>
            ELSE <<>>)

broadenQuery(query) ==
    LET \* originalQuery.replace(/\s+/g, ' ').trim()
        tier1Query == trim(replaceRuns(query, {" "}))
        tier2 == tier2Of(tier1Query)
        tier3 == tier3Of(tier1Query, tier2.query, tier2.stripped)
        tier2QueryLower ==
            toLowerCase(IF tier2.query # <<>> THEN tier2.query ELSE tier1Query)
    IN  <<BroadenResult(tier1Query, 1, 1000, <<>>)>>
        \o (IF /\ length(tier2.query) > 5
               /\ toLowerCase(tier2.query) # toLowerCase(tier1Query)
               /\ tier2.stripped # <<>>
            THEN <<BroadenResult(tier2.query, 2, 850, tier2.stripped)>>
            ELSE <<>>)
        \o (IF /\ length(tier3.query) > 3
               /\ toLowerCase(tier3.query) # tier2QueryLower
            THEN <<BroadenResult(tier3.query, 3, 700, tier3.stripped)>>
            ELSE <<>>)

\* ------------------------------------------------------------------------
\* Search with progressive fallback
\*
\* What one call of the injected search function does: it rejects (ok is
\* FALSE) or resolves with results and total.
SearchOutcome(ok, results, total) == [ok |-> ok, results |-> results, total |-> total]

\* minResults: number = 3
DefaultMinResults == 3

minResultsOf(arg) == IF arg = Omitted THEN DefaultMinResults ELSE arg[1]

\* tierReturn reporting every returned tier as broadened
tierReturn_alwaysBroadened(original, entry, outcome) ==
    [results |-> outcome.results,
     total |-> outcome.total,
     usedQuery |-> entry.query,
     originalQuery |-> original,
     tier |-> entry.tier,
     confidence |-> entry.confidence,
     broadened |-> TRUE,
     strippedTerms |-> entry.strippedTerms]

\* The value returned from inside the loop.
tierReturn(original, entry, outcome) ==
    [results |-> outcome.results,
     total |-> outcome.total,
     usedQuery |-> entry.query,
     originalQuery |-> original,
     tier |-> entry.tier,
     confidence |-> entry.confidence,
     broadened |-> entry.tier > 1,
     strippedTerms |-> entry.strippedTerms]

\* lastReturn without the penalty for insufficient results
lastReturn_noPenalty(original, lastQuery, outcome) ==
    [results |-> IF outcome.ok THEN outcome.results ELSE <<>>,
     total |-> IF outcome.ok THEN outcome.total ELSE 0,
     usedQuery |-> lastQuery.query,
     originalQuery |-> original,
     tier |-> lastQuery.tier,
     confidence |-> IF outcome.ok THEN lastQuery.confidence ELSE 100,
     broadened |-> TRUE,
     strippedTerms |-> lastQuery.strippedTerms]

\* lastReturn without the catch: a rejection of the last search propagates
lastReturn_uncaught(original, lastQuery, outcome) ==
    IF outcome.ok
    THEN [results |-> outcome.results,
          total |-> outcome.total,
          usedQuery |-> lastQuery.query,
          originalQuery |-> original,
          tier |-> lastQuery.tier,
          confidence |-> lastQuery.confidence \div 2,
          broadened |-> TRUE,
          strippedTerms |-> lastQuery.strippedTerms]
    ELSE [rejected |-> TRUE]

\* The value returned after the loop, from the search of lastQuery: its
\* results at half the confidence, or empty results at confidence 0.1 when
\* that search rejects.
lastReturn(original, lastQuery, outcome) ==
    [results |-> IF outcome.ok THEN outcome.results ELSE <<>>,
     total |-> IF outcome.ok THEN outcome.total ELSE 0,
     usedQuery |-> lastQuery.query,
     originalQuery |-> original,
     tier |-> lastQuery.tier,
     confidence |-> IF outcome.ok THEN lastQuery.confidence \div 2 ELSE 100,
     broadened |-> TRUE,
     strippedTerms |-> lastQuery.strippedTerms]

\* ------------------------------------------------------------------------
\* Input domains

\* Largest buy price the slider is moved to, in steps of BuyStep.
MaxBuySteps == 5

\* The slider positions the model visits are $7 apart.
BuyPrices == {k * 700 : k \in 0..MaxBuySteps}

ShippingCosts == {Omitted, Given(0), Given(800)}

\* Buy prices of the profit calculator alone.
MaxProfitBuySteps == 4

ProfitInputs ==
    [expectedSalePrice : {0, 1999, 4500, 12000},
     buyPrice : {k * 300 : k \in 0..MaxProfitBuySteps},
     shippingCost : {Omitted, Given(0), Given(800)},
     category : Categories,
     promotedListingRate : {0, 500, 2000}]

MedianPrices == {0, 3200, 4500, 12000}

SoldCounts == {<<0, 0>>, <<6, 15>>, <<15, 20>>, <<120, 270>>}

\* A wide price range comes with a high volatility, and a high sell-through
\* rate with asking prices above the sold average.
Markets ==
    { [avgSoldPrice |-> median,
       medianSoldPrice |-> median,
       minSoldPrice |-> IF wide THEN median \div 2 ELSE (median * 9) \div 10,
       maxSoldPrice |-> IF wide THEN median * 2 ELSE (median * 11) \div 10,
       totalSold30Days |-> sold[1],
       totalSold90Days |-> sold[2],
       avgDaysToSell |-> days,
       activeListingCount |-> active,
       avgActivePrice |-> IF str > 60 THEN (median * 12) \div 10 ELSE median,
       sellThroughRate |-> str,
       priceVolatility |-> IF wide THEN 40 ELSE 5] :
      median \in MedianPrices, wide \in BOOLEAN, sold \in SoldCounts,
      days \in {2, 6, 9, 12}, active \in {5, 30, 60}, str \in {30, 55, 90} }

\* Inputs of applyGradeOverride called on its own: any score with any grade.
OverrideInputs ==
    [score : {0, 5640, 8300, 9100},
     grade : {"A+", "B+", "B", "B-", "C", "D-", "F-"},
     daysToSell : {3, 5, 6, 7, 10, 11},
     netProfit : {-200, 500, 800, 1000, 1800, 3000},
     grossMargin : {-500, 2000, 2500, 4000, 6000},
     sellThroughRate : {20, 50, 65}]

\* ------------------------------------------------------------------------
\* The net profit calculator called on its own

InitProfit ==
    /\ pc = "input"
    /\ identification = None /\ ebayService = None /\ scanResponse = None
    /\ scanData = None /\ sliderBuyPrice = 0 /\ excludedListings = {}
    /\ maxBuyArgs = None /\ maxBuyResult = Omitted
    /\ profitArgs \in ProfitInputs
    /\ profitResult = None
    /\ overrideArgs = None /\ overrideResult = None
    /\ market = None /\ vestInput = None /\ vestScore = None
    /\ targetGrade = "" /\ suggestion = Omitted
    /\ sellArgs = None /\ sellResult = None
    /\ originalQuery = <<>> /\ minResults = Omitted /\ queries = <<>>
    /\ tierIndex = 0 /\ searchCalls = <<>> /\ searchReturn = None
    /\ aiEstimate = None /\ ebayResponse = None /\ ebayData = None
    /\ triangulation = None

CalculateNetProfit ==
    /\ pc = "input"
    /\ profitResult' = calculateNetProfit(profitArgs)
    /\ pc' = "calculateNetProfit"
    /\ UNCHANGED <<profitArgs, overrideVars, vestVars, triVars, sellVars, searchVars,
                   maxBuyVars, scanVars, pageVars>>

NextProfit == CalculateNetProfit

SpecProfit == InitProfit /\ [][NextProfit]_vars

\* ------------------------------------------------------------------------
\* The override engine called on its own

InitOverride ==
    /\ pc = "input"
    /\ identification = None /\ ebayService = None /\ scanResponse = None
    /\ scanData = None /\ sliderBuyPrice = 0 /\ excludedListings = {}
    /\ maxBuyArgs = None /\ maxBuyResult = Omitted
    /\ overrideArgs \in OverrideInputs
    /\ overrideResult = None
    /\ profitArgs = None /\ profitResult = None
    /\ market = None /\ vestInput = None /\ vestScore = None
    /\ targetGrade = "" /\ suggestion = Omitted
    /\ sellArgs = None /\ sellResult = None
    /\ originalQuery = <<>> /\ minResults = Omitted /\ queries = <<>>
    /\ tierIndex = 0 /\ searchCalls = <<>> /\ searchReturn = None
    /\ aiEstimate = None /\ ebayResponse = None /\ ebayData = None
    /\ triangulation = None

ApplyGradeOverride ==
    /\ pc = "input"
    /\ overrideResult' = applyGradeOverride(overrideArgs)
    /\ pc' = "applyGradeOverride"
    /\ UNCHANGED <<overrideArgs, profitVars, vestVars, triVars, sellVars, searchVars,
                   maxBuyVars, scanVars, pageVars>>

NextOverride == ApplyGradeOverride

SpecOverride == InitOverride /\ [][NextOverride]_vars

\* ------------------------------------------------------------------------
\* Scoring a market: the buy price slider and the price suggestion

Init ==
    /\ pc = "input"
    /\ identification = None /\ ebayService = None /\ scanResponse = None
    /\ scanData = None /\ sliderBuyPrice = 0 /\ excludedListings = {}
    /\ maxBuyArgs = None /\ maxBuyResult = Omitted
    /\ market \in Markets
    /\ vestInput = None /\ vestScore = None
    /\ targetGrade = "" /\ suggestion = Omitted
    /\ sellArgs = None /\ sellResult = None
    /\ originalQuery = <<>> /\ minResults = Omitted /\ queries = <<>>
    /\ tierIndex = 0 /\ searchCalls = <<>> /\ searchReturn = None
    /\ profitArgs = None /\ profitResult = None
    /\ overrideArgs = None /\ overrideResult = None
    /\ aiEstimate = None /\ ebayResponse = None /\ ebayData = None
    /\ triangulation = None

\* useVestCalculation: every buy price change recomputes the whole score.
CalculateVestScore ==
    \E buyPrice \in BuyPrices, shippingCost \in ShippingCosts :
        /\ vestInput' = [buyPrice |-> buyPrice, shippingCost |-> shippingCost]
        /\ vestScore' = calculateVestScore(market, vestInput')
        /\ pc' = "calculateVestScore"
        /\ UNCHANGED <<market, targetGrade, suggestion, profitVars, overrideVars, triVars, sellVars, searchVars,
                   maxBuyVars, scanVars, pageVars>>

SuggestBuyPrice ==
    \E target \in TargetGrades :
        /\ targetGrade' = target
        /\ suggestion' = Given(suggestBuyPrice(market, target))
        /\ pc' = "suggestBuyPrice"
        /\ UNCHANGED <<market, vestInput, vestScore, profitVars, overrideVars, triVars, sellVars, searchVars,
                   maxBuyVars, scanVars, pageVars>>

Next == CalculateVestScore \/ SuggestBuyPrice

Spec == Init /\ [][Next]_vars

\* ------------------------------------------------------------------------
\* Triangulating a price from an AI estimate and a marketplace search

AiPrices == {0, 1000, 1999, 2000, 3000}

\* An AI estimate, when present, has 0 <= low <= mid <= high.
AiEstimates ==
    {None} \cup {e \in [low : AiPrices, mid : AiPrices, high : AiPrices] :
                    e.low <= e.mid /\ e.mid <= e.high}

\* Search responses: how many returned items have each price (0 is an item
\* without a usable price), and the total the marketplace reports.
ListingBags ==
    {[p \in {0, 1200, 1400, 2500} |->
         CASE p = 0 -> unpriced [] p = 1200 -> n12 [] p = 1400 -> n14 [] p = 2500 -> n25] :
       unpriced \in {0, 1}, n12 \in {0, 1, 2}, n14 \in {0, 1, 7}, n25 \in {0, 1, 3}}

EbayResponses ==
    {r \in [listings : ListingBags, total : {0, 12, 20}] :
        r.total = 0 \/ r.total >= ListingCount(r.listings)}

InitTri ==
    /\ pc = "input"
    /\ identification = None /\ ebayService = None /\ scanResponse = None
    /\ scanData = None /\ sliderBuyPrice = 0 /\ excludedListings = {}
    /\ maxBuyArgs = None /\ maxBuyResult = Omitted
    /\ aiEstimate \in AiEstimates
    /\ ebayResponse \in EbayResponses
    /\ ebayData = None
    /\ triangulation = None
    /\ profitArgs = None /\ profitResult = None
    /\ overrideArgs = None /\ overrideResult = None
    /\ market = None /\ vestInput = None /\ vestScore = None
    /\ targetGrade = "" /\ suggestion = Omitted
    /\ sellArgs = None /\ sellResult = None
    /\ originalQuery = <<>> /\ minResults = Omitted /\ queries = <<>>
    /\ tierIndex = 0 /\ searchCalls = <<>> /\ searchReturn = None

\* fetchEbayMarketData, up to the triangulated prices.
FetchEbayMarketData ==
    /\ pc = "input"
    /\ ebayData' = ebayStats(ebayResponse)
    /\ triangulation' = triangulatedPrices(aiEstimate, ebayResponse)
    /\ pc' = "fetchEbayMarketData"
    /\ UNCHANGED <<aiEstimate, ebayResponse, profitVars, overrideVars, vestVars,
                 sellVars, searchVars,
                   maxBuyVars, scanVars, pageVars>>

\* triangulatePrice when the model is unavailable or its answer is empty or
\* unparsable: the caller passes an estimate and the listing statistics.
TriangulatePrice ==
    /\ pc = "input"
    /\ aiEstimate # None
    /\ ebayData' = ebayStats(ebayResponse)
    /\ triangulation' = calculateFallbackTriangulation(aiEstimate, ebayData')
    /\ pc' = "triangulatePrice"
    /\ UNCHANGED <<aiEstimate, ebayResponse, profitVars, overrideVars, vestVars,
                 sellVars, searchVars,
                   maxBuyVars, scanVars, pageVars>>

NextTri == FetchEbayMarketData \/ TriangulatePrice

SpecTri == InitTri /\ [][NextTri]_vars

\* ------------------------------------------------------------------------
\* Estimating the sell-through rate

ActiveListingCounts == {0, 3, 5, 9, 10, 50, 51, 100, 101}

SellThroughInputs ==
    [demandLevel : DemandLevels,
     activeListingCount : ActiveListingCounts,
     aiPriceEstimate : {0, 4000, 4200, 5100, 6600, 7800, 7900},
     ebayMedianPrice : {0, 6000}]

InitSell ==
    /\ pc = "input"
    /\ identification = None /\ ebayService = None /\ scanResponse = None
    /\ scanData = None /\ sliderBuyPrice = 0 /\ excludedListings = {}
    /\ maxBuyArgs = None /\ maxBuyResult = Omitted
    /\ sellArgs \in SellThroughInputs
    /\ sellResult = None
    /\ profitArgs = None /\ profitResult = None
    /\ overrideArgs = None /\ overrideResult = None
    /\ market = None /\ vestInput = None /\ vestScore = None
    /\ targetGrade = "" /\ suggestion = Omitted
    /\ aiEstimate = None /\ ebayResponse = None /\ ebayData = None
    /\ triangulation = None
    /\ originalQuery = <<>> /\ minResults = Omitted /\ queries = <<>>
    /\ tierIndex = 0 /\ searchCalls = <<>> /\ searchReturn = None

EstimateSellThroughRate ==
    /\ pc = "input"
    /\ sellResult' = estimateSellThroughRate(sellArgs)
    /\ pc' = "estimateSellThroughRate"
    /\ UNCHANGED <<sellArgs, profitVars, overrideVars, vestVars, triVars, searchVars,
                   maxBuyVars, scanVars, pageVars>>

NextSell == EstimateSellThroughRate

SpecSell == InitSell /\ [][NextSell]_vars

\* ------------------------------------------------------------------------
\* Broadening a query

\* Longest query, in tokens.
MaxQueryLen == 5

InputTokens == (Words \ {"sony"}) \cup {" ", ","}

Queries ==
    {q \in UNION {[1..n -> InputTokens] : n \in 0..MaxQueryLen} :
        \A i \in 1..(Len(q) - 1) : ~(q[i] \in Words /\ q[i + 1] \in Words)}

InitBroaden ==
    /\ pc = "input"
    /\ identification = None /\ ebayService = None /\ scanResponse = None
    /\ scanData = None /\ sliderBuyPrice = 0 /\ excludedListings = {}
    /\ maxBuyArgs = None /\ maxBuyResult = Omitted
    /\ originalQuery \in Queries
    /\ minResults = Omitted /\ queries = <<>>
    /\ tierIndex = 0 /\ searchCalls = <<>> /\ searchReturn = None
    /\ profitArgs = None /\ profitResult = None
    /\ overrideArgs = None /\ overrideResult = None
    /\ market = None /\ vestInput = None /\ vestScore = None
    /\ targetGrade = "" /\ suggestion = Omitted
    /\ aiEstimate = None /\ ebayResponse = None /\ ebayData = None
    /\ triangulation = None
    /\ sellArgs = None /\ sellResult = None

BroadenQuery ==
    /\ pc = "input"
    /\ queries' = broadenQuery(originalQuery)
    /\ pc' = "broadenQuery"
    /\ UNCHANGED <<originalQuery, minResults, tierIndex, searchCalls, searchReturn,
                   profitVars, overrideVars, vestVars, triVars, sellVars,
                   maxBuyVars, scanVars, pageVars>>

NextBroaden == BroadenQuery

SpecBroaden == InitBroaden /\ [][NextBroaden]_vars

\* ------------------------------------------------------------------------
\* Searching with fallback

SearchQueries ==
    {<<"Sony", " ", "tv">>,
     <<" ", "Sony">>,
     <<"used", " ", "Sony", " ", "tv">>,
     <<"used", " ", "Sony", " ", "steel">>,
     <<"Sony", ",", "steel", " ", "tv">>,
     <<"used", " ", "copper">>}

MinResultsArgs == {Omitted, Given(1)}

\* What the search function may do on a call, whatever the query.
SearchOutcomes ==
    {SearchOutcome(FALSE, <<>>, 0),
     SearchOutcome(TRUE, <<>>, 0),
     SearchOutcome(TRUE, <<"a">>, 1),
     SearchOutcome(TRUE, <<"b", "c", "d">>, 40),
     SearchOutcome(TRUE, <<"e", "f", "g", "h">>, 4)}

InitSearch ==
    /\ pc = "input"
    /\ identification = None /\ ebayService = None /\ scanResponse = None
    /\ scanData = None /\ sliderBuyPrice = 0 /\ excludedListings = {}
    /\ maxBuyArgs = None /\ maxBuyResult = Omitted
    /\ originalQuery \in SearchQueries
    /\ minResults \in MinResultsArgs
    /\ queries = <<>>
    /\ tierIndex = 0 /\ searchCalls = <<>> /\ searchReturn = None
    /\ profitArgs = None /\ profitResult = None
    /\ overrideArgs = None /\ overrideResult = None
    /\ market = None /\ vestInput = None /\ vestScore = None
    /\ targetGrade = "" /\ suggestion = Omitted
    /\ aiEstimate = None /\ ebayResponse = None /\ ebayData = None
    /\ triangulation = None
    /\ sellArgs = None /\ sellResult = None

\* searchWithFallback up to the first await.
SearchWithFallback ==
    /\ pc = "input"
    /\ queries' = broadenQuery(originalQuery)
    /\ tierIndex' = 1
    /\ pc' = "loop"
    /\ UNCHANGED <<originalQuery, minResults, searchCalls, searchReturn,
                   profitVars, overrideVars, vestVars, triVars, sellVars,
                   maxBuyVars, scanVars, pageVars>>

\* One iteration of the loop: the search of queries[tierIndex] settles.
SearchTier ==
    /\ pc = "loop"
    /\ tierIndex <= Len(queries)
    /\ \E outcome \in SearchOutcomes :
          LET entry == queries[tierIndex]
          IN  /\ searchCalls' = Append(searchCalls,
                                       [query |-> entry.query, tier |-> entry.tier,
                                        outcome |-> outcome])
              /\ IF outcome.ok /\ Len(outcome.results) >= minResultsOf(minResults)
                 THEN /\ searchReturn' = tierReturn(originalQuery, entry, outcome)
                      /\ pc' = "done"
                      /\ UNCHANGED tierIndex
                 ELSE /\ tierIndex' = tierIndex + 1
                      /\ UNCHANGED <<pc, searchReturn>>
    /\ UNCHANGED <<originalQuery, minResults, queries,
                   profitVars, overrideVars, vestVars, triVars, sellVars,
                   maxBuyVars, scanVars, pageVars>>

\* After the loop: the search of the last query settles.
SearchLast ==
    /\ pc = "loop"
    /\ tierIndex > Len(queries)
    /\ \E outcome \in SearchOutcomes :
          LET lastQuery == queries[Len(queries)]
          IN  /\ searchCalls' = Append(searchCalls,
                                       [query |-> lastQuery.query,
                                        tier |-> lastQuery.tier,
                                        outcome |-> outcome])
              /\ searchReturn' = lastReturn(originalQuery, lastQuery, outcome)
    /\ pc' = "done"
    /\ UNCHANGED <<originalQuery, minResults, queries, tierIndex,
                   profitVars, overrideVars, vestVars, triVars, sellVars,
                   maxBuyVars, scanVars, pageVars>>

NextSearch == SearchWithFallback \/ SearchTier \/ SearchLast

SpecSearch == InitSearch /\ [][NextSearch]_vars

\* ------------------------------------------------------------------------
\* The buy price for a target profit, and the profit at that buy price

MaxBuyInputs ==
    [expectedSalePrice : {0, 1250, 1999, 4500, 12000},
     targetNetProfit : {0, 500, 1000, 2500},
     category : {"", "books", "fragile"},
     shippingCost : {Omitted, Given(0), Given(800)}]

InitMaxBuy ==
    /\ pc = "input"
    /\ identification = None /\ ebayService = None /\ scanResponse = None
    /\ scanData = None /\ sliderBuyPrice = 0 /\ excludedListings = {}
    /\ maxBuyArgs \in MaxBuyInputs
    /\ maxBuyResult = Omitted
    /\ profitArgs = None /\ profitResult = None
    /\ overrideArgs = None /\ overrideResult = None
    /\ market = None /\ vestInput = None /\ vestScore = None
    /\ targetGrade = "" /\ suggestion = Omitted
    /\ aiEstimate = None /\ ebayResponse = None /\ ebayData = None
    /\ triangulation = None
    /\ sellArgs = None /\ sellResult = None
    /\ originalQuery = <<>> /\ minResults = Omitted /\ queries = <<>>
    /\ tierIndex = 0 /\ searchCalls = <<>> /\ searchReturn = None

FindMaxBuyPriceForProfit ==
    /\ pc = "input"
    /\ \E tie \in Ties :
          maxBuyResult' = Given(findMaxBuyPriceForProfit(maxBuyArgs.expectedSalePrice,
                                                         maxBuyArgs.targetNetProfit,
                                                         maxBuyArgs.category,
                                                         maxBuyArgs.shippingCost, tie))
    /\ pc' = "findMaxBuyPriceForProfit"
    /\ UNCHANGED <<maxBuyArgs, profitVars, overrideVars, vestVars, triVars,
                   sellVars, searchVars, scanVars, pageVars>>

\* The profit at the buy price found: same sale price, category and shipping
\* cost, no promoted listing.
CalculateNetProfitAtMaxBuy ==
    /\ pc = "findMaxBuyPriceForProfit"
    /\ profitArgs' = [expectedSalePrice |-> maxBuyArgs.expectedSalePrice,
                      buyPrice |-> maxBuyResult[1],
                      shippingCost |-> maxBuyArgs.shippingCost,
                      category |-> maxBuyArgs.category,
                      promotedListingRate |-> 0]
    /\ \E tie \in Ties : profitResult' = calculateNetProfitTie(profitArgs', tie)
    /\ pc' = "calculateNetProfit"
    /\ UNCHANGED <<maxBuyVars, overrideVars, vestVars, triVars, sellVars, searchVars, scanVars, pageVars>>

NextMaxBuy == FindMaxBuyPriceForProfit \/ CalculateNetProfitAtMaxBuy

SpecMaxBuy == InitMaxBuy /\ [][NextMaxBuy]_vars

\* ------------------------------------------------------------------------
\* Synthetic sold listings and the market summaries built from them
\*
\* Unrounded prices are exact fractions of cents, kept in lowest terms.

\* The element of a one-element set: what a const binding holds, computed
\* once.
TheOne(S) == CHOOSE x \in S : TRUE

RECURSIVE GCD(_, _)
GCD(a, b) == IF b = 0 THEN a ELSE GCD(b, a % b)

RatNorm(r) ==
    LET g == GCD(Abs(r.n), r.d)
    IN  Rat(r.n \div g, r.d \div g)

RatAdd(a, b) == RatNorm(Rat(a.n * b.d + b.n * a.d, a.d * b.d))

RatSub(a, b) == RatNorm(Rat(a.n * b.d - b.n * a.d, a.d * b.d))

\* r * num / den, den > 0
RatScale(r, num, den) ==
    LET s == RatNorm(r)
        g == GCD(Abs(num), den)
        h == GCD(Abs(s.n), den \div g)
        k == GCD(Abs(num \div g), s.d)
    IN  RatNorm(Rat((s.n \div h) * ((num \div g) \div k),
                    (s.d \div k) * ((den \div g) \div h)))

\* Math.round(price * 100) / 100 of a price in cents: the nearest cent.
RatRound(r) == RoundDiv(r.n, r.d)

\* The value of 0 / 0.  The scorers only ever test a summary field with <,
\* > or >=; the one field that can hold it, priceVolatility, is tested with <
\* alone, which NaN fails like a number above every threshold.
NaN == 1000000

\* What Math.random() returns for one listing, in hundredths: rand selects
\* the branch of the generator, u is the draw inside the branch.
Draws == [rand : {10, 50, 90}, u : {0, 90}]

Sqrt(k) == CHOOSE r \in 0..k : r * r = k

\* The outcomes of sampling that the model follows: every listing is drawn
\* as a, or four fifths of them (the first ones) as a and the others as b.
\* With a count that is a multiple of 5 the standard deviation of such a
\* sample is rational.
Samples == [most : BOOLEAN, a : Draws, b : Draws]

FirstOf(count, sample) == IF sample.most THEN (4 * count) \div 5 ELSE count

\* The listing counts 15 + Math.floor(Math.random() * 10) the model follows.
EstimatedCounts == {15, 20}

\* Sold prices in cents: `first` listings at priceA, count - first at priceB.
SoldPrices(count, first, priceA, priceB) ==
    [count |-> count, first |-> first, priceA |-> priceA, priceB |-> priceB]

SumOf(prices) ==
    prices.first * prices.priceA + (prices.count - prices.first) * prices.priceB

\* sortedPrices[Math.floor(sortedPrices.length / 2)]
MedianOf(prices) ==
    LET lowest == Min2(prices.priceA, prices.priceB)
        highest == Max2(prices.priceA, prices.priceB)
        lowestCount == IF prices.priceA = prices.priceB THEN prices.count
                       ELSE IF prices.priceA < prices.priceB THEN prices.first
                       ELSE prices.count - prices.first
    IN  IF prices.count \div 2 < lowestCount THEN lowest ELSE highest

\* calculatePriceVolatility: stdDev / mean to two decimals, in hundredths;
\* 0 / 0 when every price is 0.  With k listings at one price and count - k
\* at another, stdDev = sqrt(k (count - k)) |A - B| / count and mean = sum /
\* count.
calculatePriceVolatility(prices) ==
    IF prices.count < 2 THEN 0
    ELSE IF SumOf(prices) = 0 THEN NaN
    ELSE RoundDiv(100 * Sqrt(prices.first * (prices.count - prices.first))
                      * Abs(prices.priceA - prices.priceB),
                  SumOf(prices))

\* The price of one listing of generateEstimatedSoldListings, in cents.
estimatedSoldPrice(midPrice, lowPrice, highPrice, draw) ==
    LET price ==
          IF draw.rand < 20
          THEN \* lowPrice + (midPrice - lowPrice) * Math.random() * 0.3
               RatAdd(lowPrice, RatScale(RatSub(midPrice, lowPrice), 3 * draw.u, 1000))
          ELSE IF draw.rand < 85
          THEN \* midPrice * (0.85 + Math.random() * 0.3)
               RatScale(midPrice, 850 + 3 * draw.u, 1000)
          ELSE \* midPrice + (highPrice - midPrice) * (0.5 + Math.random() * 0.5)
               RatAdd(midPrice, RatScale(RatSub(highPrice, midPrice), 100 + draw.u, 200))
    IN  RatRound(price)

\* count = 15 + Math.floor(Math.random() * 10) listings.
generateEstimatedSoldListings(midPrice, lowPrice, highPrice, count, sample) ==
    SoldPrices(count, FirstOf(count, sample),
               estimatedSoldPrice(midPrice, lowPrice, highPrice, sample.a),
               estimatedSoldPrice(midPrice, lowPrice, highPrice, sample.b))

\* Days, for a non-empty list of sold listings.
calculateAvgDaysToSell(prices, activeListingCount) ==
    IF prices.count = 0 THEN 7
    ELSE LET \* baseDays = 5 + Math.min(1, activeListingCount / 50) * 9, in fiftieths
             baseDays == 250 + 9 * Min2(50, activeListingCount)
             \* priceFactor = Math.min(7, avgPrice / 50), avgPrice in dollars
             capped == SumOf(prices) >= 35000 * prices.count
         IN  IF capped THEN RoundDiv(baseDays + 350, 50)
             ELSE RoundDiv(100 * prices.count * baseDays + SumOf(prices),
                           5000 * prices.count)

\* In hundredths.
calculateSellThroughRate(sold, active) ==
    IF sold + active = 0 THEN 50
    ELSE RoundDiv(100 * sold, sold + active)

\* The returned items in the order of the response (sort: 'price'), as their
\* parsed prices in cents.
RECURSIVE ActiveListingsOf(_)
ActiveListingsOf(listings) ==
    LET present == {p \in DOMAIN listings : listings[p] > 0}
    IN  IF present = {} THEN <<>>
        ELSE LET p == CHOOSE q \in present : \A r \in present : q <= r
             IN  <<p>> \o ActiveListingsOf([listings EXCEPT ![p] = @ - 1])

\* fetchEbayMarketData once the search has answered.  MarketData: soldListings
\* as SoldPrices, activeListings as a sequence of prices, the summary in the
\* units of the scorers; source names the generator (the code logs it).
fetchEbayMarketData(response, ai, count, sample) ==
    LET summaryOf(data, totalActive, triangulated, soldListings) ==
            [avgSoldPrice |-> RoundDiv(SumOf(soldListings), soldListings.count),
             medianSoldPrice |-> MedianOf(soldListings),
             minSoldPrice |-> RatRound(triangulated.low),
             maxSoldPrice |-> RatRound(triangulated.high),
             totalSold30Days |-> Min2(soldListings.count, 15),
             totalSold90Days |-> soldListings.count,
             avgDaysToSell |-> calculateAvgDaysToSell(soldListings, totalActive),
             activeListingCount |-> totalActive,
             avgActivePrice |-> RatRound(data.avgPrice),
             sellThroughRate |-> calculateSellThroughRate(soldListings.count, totalActive),
             priceVolatility |-> calculatePriceVolatility(soldListings)]
        marketDataOf(data, triangulated, soldListings) ==
            [source |-> "ebay",
             soldListings |-> soldListings,
             activeListings |-> ActiveListingsOf(response.listings),
             summary |-> summaryOf(data, data.listingCount, triangulated, soldListings),
             triangulation |-> triangulated]
        fromTriangulated(data, triangulated) ==
            TheOne({marketDataOf(data, triangulated, soldListings) :
                      soldListings \in {generateEstimatedSoldListings(
                                           triangulated.mid, triangulated.low,
                                           triangulated.high, count, sample)}})
    IN  TheOne({fromTriangulated(data, triangulated) :
                  data \in {ebayStats(response)},
                  triangulated \in {triangulatedPrices(ai, response)}})

\* demandMultipliers: soldCount, activeCount, daysToSell.
demandMultipliers(demandLevel) ==
    CASE demandLevel = "high" -> [soldCount |-> 150, activeCount |-> 40, daysToSell |-> 3]
      [] demandLevel = "medium" -> [soldCount |-> 50, activeCount |-> 30, daysToSell |-> 10]
      [] demandLevel = "low" -> [soldCount |-> 15, activeCount |-> 20, daysToSell |-> 25]

\* The price of one listing of generateSoldListingsFromEstimate, in cents.
soldPriceFromEstimate(low, mid, high, draw) ==
    LET price ==
          IF draw.rand < 15
          THEN \* low + (mid - low) * 0.3 * Math.random()
               RatNorm(Rat(1000 * low + (mid - low) * 3 * draw.u, 1000))
          ELSE IF draw.rand < 85
          THEN \* mid + (Math.random() - 0.5) * (high - low) * 0.4
               RatNorm(Rat(1000 * mid + 4 * (draw.u - 50) * (high - low), 1000))
          ELSE \* mid + (high - mid) * (0.5 + 0.5 * Math.random())
               RatNorm(Rat(200 * mid + (high - mid) * (100 + draw.u), 200))
        floor == Rat(9 * low, 10)
        ceiling == Rat(11 * high, 10)
        \* Math.max(low * 0.9, Math.min(high * 1.1, price))
        capped == IF RatLe(ceiling, price) THEN ceiling ELSE price
        bounded == IF RatLe(capped, floor) THEN floor ELSE capped
    IN  RatRound(bounded)

generateSoldListingsFromEstimate(low, mid, high, count, sample) ==
    SoldPrices(count, FirstOf(count, sample),
               soldPriceFromEstimate(low, mid, high, sample.a),
               soldPriceFromEstimate(low, mid, high, sample.b))

\* mid + (high - mid) * (0.2 + Math.random() * 0.8), to the cent
activePriceFromEstimate(mid, high, u) ==
    RoundDiv(1000 * mid + (high - mid) * (200 + 8 * u), 1000)

\* The model draws the first half of the active listings with one random
\* number and the second half with another.
generateActiveListingsFromEstimate(mid, high, count, sample) ==
    [i \in 1..count |->
        IF 2 * i <= count THEN activePriceFromEstimate(mid, high, sample.a.u)
        ELSE activePriceFromEstimate(mid, high, sample.b.u)]

RECURSIVE SeqSum(_)
SeqSum(s) == IF s = <<>> THEN 0 ELSE Head(s) + SeqSum(Tail(s))

\* estimate: [low, mid, high (cents), demandLevel]
generateMarketDataFromAIEstimate(estimate, sample) ==
    LET low == estimate.low
        mid == estimate.mid
        high == estimate.high
        \* priceSpread = (high - low) / mid is +-Infinity or NaN when mid is 0;
        \* volatility = Math.min(0.5, Math.max(0.1, priceSpread / 2)), rounded
        \* to thousandths
        volatility ==
            IF mid = 0
            THEN IF high = low THEN NaN
                 ELSE IF high > low THEN 500 ELSE 100
            ELSE Min2(500, Max2(100, RoundDiv(1000 * (high - low), 2 * mid)))
        multipliers == demandMultipliers(estimate.demandLevel)
        displaySoldCount == Min2(multipliers.soldCount, 20)
        displayActiveCount == Min2(multipliers.activeCount, 10)
        summaryOf(soldListings, activeListings, median) ==
            [avgSoldPrice |-> RoundDiv(SumOf(soldListings), soldListings.count),
             \* soldPrices[Math.floor(soldPrices.length / 2)] || mid
             medianSoldPrice |-> IF median # 0 THEN median ELSE mid,
             minSoldPrice |-> low,
             maxSoldPrice |-> high,
             totalSold30Days |-> multipliers.soldCount,
             totalSold90Days |-> RoundDiv(25 * multipliers.soldCount, 10),
             avgDaysToSell |-> multipliers.daysToSell,
             activeListingCount |-> multipliers.activeCount,
             avgActivePrice |-> IF Len(activeListings) > 0
                                THEN RoundDiv(SeqSum(activeListings), Len(activeListings))
                                ELSE RoundDiv(11 * mid, 10),
             \* soldCount / (soldCount + activeCount), here to the hundredth
             sellThroughRate |-> RoundDiv(100 * multipliers.soldCount,
                                          multipliers.soldCount + multipliers.activeCount),
             \* thousandths in the code; the scorers compare with tenths only
             priceVolatility |-> IF volatility = NaN THEN NaN ELSE volatility \div 10]
    IN  TheOne({[source |-> "ai",
                 soldListings |-> soldListings,
                 activeListings |-> activeListings,
                 summary |-> summaryOf(soldListings, activeListings,
                                       MedianOf(soldListings))] :
                  soldListings \in {generateSoldListingsFromEstimate(
                                       low, mid, high, displaySoldCount, sample)},
                  activeListings \in {generateActiveListingsFromEstimate(
                                         mid, high, displayActiveCount, sample)}})

\* MockMarketConfig: basePrice in cents, volatility in percent.
defaultConfig ==
    [basePrice |-> 5000, volatility |-> 30, soldCount |-> 45, activeCount |-> 25,
     avgDaysToSell |-> 14]

\* mockMarketConfigs: the entry of a query that names pottery.
potteryConfig ==
    [basePrice |-> 6500, volatility |-> 40, soldCount |-> 23, activeCount |-> 12,
     avgDaysToSell |-> 21]

MockMarketConfigs == {defaultConfig, potteryConfig}

\* basePrice * (1 + (Math.random() - 0.5) * 2 * volatility), to the cent
mockSoldPrice(config, u) ==
    RoundDiv(config.basePrice * (5000 + (u - 50) * config.volatility), 5000)

\* basePrice * (1 + (Math.random() - 0.3) * 2 * volatility), to the cent
mockActivePrice(config, u) ==
    RoundDiv(config.basePrice * (5000 + (u - 30) * config.volatility), 5000)

\* mockFetchMarketData with the config its query selects; calculateSummary
\* takes minimum and maximum from the generated prices.
mockFetchMarketData(config, sample) ==
    LET displaySoldCount == Min2(config.soldCount, 20)
        displayActiveCount == Min2(config.activeCount, 10)
        volatilityOf(soldListings) ==
            IF SumOf(soldListings) = 0 THEN NaN
            ELSE RoundDiv(1000 * Sqrt(soldListings.first
                                        * (soldListings.count - soldListings.first))
                               * Abs(soldListings.priceA - soldListings.priceB),
                          SumOf(soldListings))
        summaryOf(soldListings, activeListings, volatility) ==
            [avgSoldPrice |-> RoundDiv(SumOf(soldListings), soldListings.count),
             medianSoldPrice |-> MedianOf(soldListings),
             minSoldPrice |-> Min2(soldListings.priceA, soldListings.priceB),
             maxSoldPrice |-> Max2(soldListings.priceA, soldListings.priceB),
             totalSold30Days |-> config.soldCount,
             totalSold90Days |-> RoundDiv(28 * config.soldCount, 10),
             avgDaysToSell |-> config.avgDaysToSell,
             activeListingCount |-> config.activeCount,
             avgActivePrice |-> RoundDiv(SeqSum(activeListings), Len(activeListings)),
             sellThroughRate |-> RoundDiv(100 * config.soldCount,
                                          config.soldCount + config.activeCount),
             priceVolatility |-> IF volatility = NaN THEN NaN ELSE volatility \div 10]
    IN  TheOne({[source |-> "mock",
                 soldListings |-> soldListings,
                 activeListings |-> activeListings,
                 summary |-> summaryOf(soldListings, activeListings,
                                       volatilityOf(soldListings))] :
                  soldListings \in {SoldPrices(displaySoldCount,
                                               FirstOf(displaySoldCount, sample),
                                               mockSoldPrice(config, sample.a.u),
                                               mockSoldPrice(config, sample.b.u))},
                  activeListings \in
                      {[i \in 1..displayActiveCount |->
                           IF 2 * i <= displayActiveCount
                           THEN mockActivePrice(config, sample.a.u)
                           ELSE mockActivePrice(config, sample.b.u)]}})

\* ------------------------------------------------------------------------
\* scanItem

\* A promise that rejected.
Rejected == [rejected |-> TRUE]

\* What identifyItemWithGemini throws: a GeminiError with its code and
\* retryable flag, or any other error.
IdentifyErrors ==
    {[gemini |-> TRUE, code |-> "UNIDENTIFIABLE", retryable |-> FALSE],
     [gemini |-> TRUE, code |-> "PARSE_ERROR", retryable |-> TRUE],
     [gemini |-> TRUE, code |-> "RATE_LIMIT", retryable |-> TRUE],
     [gemini |-> FALSE, code |-> "", retryable |-> FALSE]}

\* The ScanError of the catch block (without its message).
scanError(error) ==
    IF error.gemini
    THEN [code |-> error.code,
          retryable |-> error.retryable,
          suggestTextInput |-> error.code \in {"UNIDENTIFIABLE", "PARSE_ERROR"}]
    ELSE [code |-> "UNKNOWN", retryable |-> TRUE, suggestTextInput |-> TRUE]

\* the catch block of the marketplace fetch letting the error through
marketDataAfterEbayError_rethrown(itemIdentity, sample) == Rejected

\* The catch block of the marketplace fetch.  itemIdentity: [priceEstimate,
\* mockConfig], mockConfig being the config its searchQuery selects.
marketDataAfterEbayError(itemIdentity, sample) ==
    IF itemIdentity.priceEstimate # None
    THEN generateMarketDataFromAIEstimate(itemIdentity.priceEstimate, sample)
    ELSE mockFetchMarketData(itemIdentity.mockConfig, sample)

\* Math.round(medianSoldPrice * 0.4): whole dollars, in cents.
suggestedBuyPriceOf(summary) == 100 * RoundDiv(4 * summary.medianSoldPrice, 1000)

\* identification: [ok, error, itemIdentity], the outcome of identifying the
\* item (identifyItemWithGemini, or mockIdentifyItem, which always answers);
\* ebay: [configured, ok, response], isEbayConfigured and the outcome of the
\* marketplace search; count and sample: the outcome of the sampling.
scanItem(ident, ebay, count, sample) ==
    IF ~ident.ok
    THEN [success |-> FALSE, error |-> scanError(ident.error)]
    ELSE LET itemIdentity == ident.itemIdentity
             priceEstimate == itemIdentity.priceEstimate
             marketData ==
                 IF ebay.configured
                 THEN IF ebay.ok
                      THEN fetchEbayMarketData(
                               ebay.response,
                               IF priceEstimate # None
                               THEN [low |-> priceEstimate.low, mid |-> priceEstimate.mid,
                                     high |-> priceEstimate.high]
                               ELSE None,
                               count, sample)
                      ELSE marketDataAfterEbayError(itemIdentity, sample)
                 ELSE IF priceEstimate # None
                 THEN generateMarketDataFromAIEstimate(priceEstimate, sample)
                 ELSE mockFetchMarketData(itemIdentity.mockConfig, sample)
             answer(data) ==
                 IF data = Rejected THEN Rejected
                 ELSE [success |-> TRUE,
                       data |-> [itemIdentity |-> itemIdentity,
                                 marketData |-> data,
                                 vestScore |->
                                     calculateVestScore(
                                         data.summary,
                                         [buyPrice |-> suggestedBuyPriceOf(data.summary),
                                          shippingCost |-> Omitted])]]
         IN  TheOne({answer(data) : data \in {marketData}})


\* priceEstimate of an ItemIdentity: each of low, mid and high is
\* Math.max(0, Number(x) || 0) of what the model answered, so all three can
\* be 0.
PriceEstimates ==
    {[low |-> 1000, mid |-> 1000, high |-> 3000, demandLevel |-> "low"],
     [low |-> 1000, mid |-> 2000, high |-> 3000, demandLevel |-> "high"],
     [low |-> 2000, mid |-> 2000, high |-> 2000, demandLevel |-> "medium"],
     [low |-> 0, mid |-> 0, high |-> 0, demandLevel |-> "medium"]}

ItemIdentities ==
    {[priceEstimate |-> None, mockConfig |-> c] : c \in MockMarketConfigs}
      \cup {[priceEstimate |-> e, mockConfig |-> defaultConfig] : e \in PriceEstimates}

Identifications ==
    {[ok |-> FALSE, error |-> e, itemIdentity |-> None] : e \in IdentifyErrors}
      \cup {[ok |-> TRUE, error |-> None, itemIdentity |-> i] : i \in ItemIdentities}

\* Listings of a search response of the scan, by price.
ScanListingBags ==
    {[p \in {0, 1200, 1400, 2500} |-> 0],
     [p \in {0, 1200, 1400, 2500} |-> IF p = 1200 THEN 1 ELSE 0],
     [p \in {0, 1200, 1400, 2500} |-> IF p = 1400 THEN 0 ELSE 1]}

EbayServices ==
    {[configured |-> FALSE, ok |-> FALSE, response |-> None],
     [configured |-> TRUE, ok |-> FALSE, response |-> None]}
      \cup {[configured |-> TRUE, ok |-> TRUE, response |-> [listings |-> b, total |-> 0]] :
              b \in ScanListingBags}

InitScan ==
    /\ pc = "input"
    /\ identification \in Identifications
    /\ ebayService \in EbayServices
    /\ scanResponse = None
    /\ scanData = None /\ sliderBuyPrice = 0 /\ excludedListings = {}
    /\ maxBuyArgs = None /\ maxBuyResult = Omitted
    /\ aiEstimate = None /\ ebayResponse = None /\ ebayData = None
    /\ triangulation = None
    /\ profitArgs = None /\ profitResult = None
    /\ overrideArgs = None /\ overrideResult = None
    /\ market = None /\ vestInput = None /\ vestScore = None
    /\ targetGrade = "" /\ suggestion = Omitted
    /\ sellArgs = None /\ sellResult = None
    /\ originalQuery = <<>> /\ minResults = Omitted /\ queries = <<>>
    /\ tierIndex = 0 /\ searchCalls = <<>> /\ searchReturn = None

ScanItem ==
    /\ pc = "input"
    /\ \E count \in EstimatedCounts, sample \in Samples :
           scanResponse' = scanItem(identification, ebayService, count, sample)
    /\ pc' = "scanItem"
    /\ UNCHANGED <<identification, ebayService, profitVars, overrideVars, vestVars,
                   triVars, sellVars, searchVars, maxBuyVars, pageVars>>

\* ------------------------------------------------------------------------
\* The results page

\* A number after JSON.stringify and JSON.parse: NaN comes back as null,
\* which every comparison of the scoring reads as 0.
jsonNumber(x) == IF x = NaN THEN 0 ELSE x

\* The market data the page reads back from sessionStorage.
storedMarketData(marketData) ==
    [marketData EXCEPT !.summary.priceVolatility = jsonNumber(@)]

\* Buy prices the slider is moved to, in cents.
SliderPrices == {0, 1000, 2500}

\* Exclusions the page model follows.
MaxExcluded == 2

\* The summary handed to MarketDataPanel.
shownSummary == scanData.summary

\* useVestCalculation(scanData.marketData, buyPrice): shipping cost 5.
shownVestScore ==
    calculateVestScore(scanData.summary,
                       [buyPrice |-> sliderBuyPrice, shippingCost |-> Given(500)])

\* The effect that loads the stored scan when the page mounts.
LoadScan ==
    /\ pc = "scanItem"
    /\ scanResponse # Rejected
    /\ scanResponse.success
    /\ scanData' = storedMarketData(scanResponse.data.marketData)
    /\ sliderBuyPrice' = suggestedBuyPriceOf(scanData'.summary)
    /\ excludedListings' = {}
    /\ pc' = "results"
    /\ UNCHANGED <<profitVars, overrideVars, vestVars, triVars, sellVars, searchVars,
                   maxBuyVars, scanVars>>

SetBuyPrice ==
    /\ pc = "results"
    /\ \E price \in SliderPrices : sliderBuyPrice' = price
    /\ UNCHANGED <<pc, scanData, excludedListings, profitVars, overrideVars, vestVars,
                   triVars, sellVars, searchVars, maxBuyVars, scanVars>>

\* The comps gallery is shown when there are active listings; the button of
\* an excluded listing is disabled.
HandleExcludeListing ==
    /\ pc = "results"
    /\ Cardinality(excludedListings) < MaxExcluded
    /\ \E index \in (1..Len(scanData.activeListings)) \ excludedListings :
           excludedListings' = excludedListings \cup {index}
    /\ UNCHANGED <<pc, scanData, sliderBuyPrice, profitVars, overrideVars, vestVars,
                   triVars, sellVars, searchVars, maxBuyVars, scanVars>>

NextScan == ScanItem \/ LoadScan \/ SetBuyPrice \/ HandleExcludeListing

SpecScan == InitScan /\ [][NextScan]_vars

\* ========================================================================
\* Properties

\* The grade order A+ > A > ... > F-, worst first.
GradeOrder == <<"F-", "F", "F+", "D-", "D", "D+", "C-", "C", "C+",
                "B-", "B", "B+", "A-", "A", "A+">>

RankOf(g) == CHOOSE i \in 1..Len(GradeOrder) : GradeOrder[i] = g

\* C1: every ProfitBreakdown satisfies, on its reported (rounded) fields,
\* netProfit = expectedSalePrice - (ebayFinalValueFee + paymentProcessingFee
\* + promotedListingFee + shippingCost) - buyPrice and totalPlatformCosts =
\* the sum of the four costs.
C1_NetProfitAlgebra ==
    profitResult # None =>
        LET b == profitResult
            costs == b.ebayFinalValueFee + b.paymentProcessingFee
                       + b.promotedListingFee + b.shippingCost
        IN  /\ b.totalPlatformCosts = costs
            /\ b.netProfit = b.expectedSalePrice - costs - b.buyPrice

\* C2: applyGradeOverride never lowers the score or the grade.
C2_OverrideMonotone ==
    overrideResult # None =>
        /\ overrideResult.originalScore = overrideArgs.score
        /\ overrideResult.originalGrade = overrideArgs.grade
        /\ overrideResult.finalScore >= overrideResult.originalScore
        /\ RankOf(overrideResult.finalGrade) >= RankOf(overrideResult.originalGrade)

C2_Witness ==
    /\ overrideResult # None
    /\ overrideResult.overrideApplied
    /\ overrideResult.finalScore > overrideResult.originalScore
    /\ RankOf(overrideResult.finalGrade) > RankOf(overrideResult.originalGrade)

\* The rules whose condition is true and whose minimumGrade ranks strictly
\* above the raw grade.
QualifyingRules(i) ==
    {r \in DOMAIN OVERRIDE_RULES :
        condition(r, i) /\ RankOf(OVERRIDE_RULES[r].minimumGrade) > RankOf(i.grade)}

\* The qualifying rule with the highest minimumGrade, the first declared on a tie.
SelectedRule(i) ==
    CHOOSE r \in QualifyingRules(i) :
        \A q \in QualifyingRules(i) :
            LET rr == RankOf(OVERRIDE_RULES[r].minimumGrade)
                rq == RankOf(OVERRIDE_RULES[q].minimumGrade)
            IN  rr > rq \/ (rr = rq /\ r <= q)

RawTotalOf(v) ==
    v.components.velocity.weighted + v.components.equity.weighted
      + v.components.stability.weighted + v.components.trend.weighted

\* The final score of a VestScore: the override's when one was applied.
FinalScoreOf(v) ==
    IF v.gradeOverride # None THEN v.gradeOverride.finalScore ELSE RawTotalOf(v)

\* C5: the four component weights sum to 1.0, and the raw weighted total and
\* the final score lie in [0, 100].
C5_WeightsAndRange ==
    vestScore # None =>
        LET c == vestScore.components
        IN  /\ c.velocity.weight + c.equity.weight
                 + c.stability.weight + c.trend.weight = 100
            /\ RawTotalOf(vestScore) >= 0 /\ RawTotalOf(vestScore) <= 100 * Pt
            /\ FinalScoreOf(vestScore) >= 0 /\ FinalScoreOf(vestScore) <= 100 * Pt
            /\ vestScore.total >= 0 /\ vestScore.total <= 1000

\* Every component at its maximum: the raw total is 100.
C5_Witness ==
    /\ vestScore # None
    /\ vestInput.buyPrice >= 0
    /\ RawTotalOf(vestScore) = 100 * Pt

\* C6: the netProfit, margin and ROI banded by calculateEquity are those of
\* the ProfitBreakdown of the same VestScore (equity reports ROI and margin
\* to one decimal, the breakdown to two).
C6_EquityUsesNetProfitFormula ==
    vestScore # None =>
        LET e == vestScore.components.equity
            b == vestScore.profitBreakdown
        IN  /\ e.netProfit = b.netProfit
            /\ Abs(e.roi * 10 - b.roi) <= 5
            /\ Abs(e.grossMargin * 10 - b.effectiveMargin) <= 5

\* The grade calculateVestScore reports at a buy price (default shipping).
GradeAt(m, buyPrice) ==
    calculateVestScore(m, [buyPrice |-> buyPrice, shippingCost |-> Omitted]).grade

\* C7: whenever some buy price in [0, medianSoldPrice] achieves the target
\* grade, the grade at the price suggestBuyPrice returns is at least the target.
C7_SuggestedPriceMeetsTarget ==
    suggestion # Omitted =>
        ((\E p \in {0} \cup BuyPrices :
             /\ p <= market.medianSoldPrice
             /\ RankOf(GradeAt(market, p)) >= RankOf(targetGrade))
         => RankOf(GradeAt(market, suggestion[1])) >= RankOf(targetGrade))

\* The recommendation bands of the specification.
RecommendationOf(score) ==
    CASE score >= 8500 -> "strong-buy"
      [] score < 8500 /\ score >= 7000 -> "buy"
      [] score < 7000 /\ score >= 5500 -> "hold"
      [] score < 5500 /\ score >= 4000 -> "pass"
      [] score < 4000 -> "strong-pass"

\* C8: the recommendation is the band of the final (post-override) score, so
\* a result raised by an override is never hold, pass or strong-pass.
C8_RecommendationFromFinalScore ==
    vestScore # None =>
        /\ vestScore.recommendation = RecommendationOf(FinalScoreOf(vestScore))
        /\ (vestScore.gradeOverride # None =>
              vestScore.recommendation \in {"buy", "strong-buy"})

\* An override raised a raw total whose own band is hold or worse.
C8_Witness ==
    /\ vestScore # None
    /\ vestScore.gradeOverride # None
    /\ vestScore.gradeOverride.originalScore < 7000
    /\ vestScore.recommendation = "buy"

\* C9: on every path (weighted blend, AI-only discount, eBay-only discount,
\* fixed fallback) the triangulated price has low <= mid <= high.
C9_TriangulationBounds ==
    triangulation # None =>
        /\ RatLe(triangulation.low, triangulation.mid)
        /\ RatLe(triangulation.mid, triangulation.high)

\* A weighted blend of an uneven estimate with listings of different prices,
\* one of them without a usable price.
C9_Witness ==
    /\ pc = "fetchEbayMarketData"
    /\ triangulation.reasoning = "Weighted eBay/AI"
    /\ aiEstimate.low < aiEstimate.mid /\ aiEstimate.mid < aiEstimate.high
    /\ ebayResponse.listings[0] > 0
    /\ ebayData.minPrice < ebayData.maxPrice
    /\ ~RatLe(triangulation.mid, triangulation.low)
    /\ ~RatLe(triangulation.high, triangulation.mid)

\* r (whole cents) is the fraction num / den of cents rounded to the nearest cent.
NearestCent(r, num, den) == r.d = 1 /\ 2 * Abs(r.n * den - num) <= den

\* The triangulation function was called with an AI estimate and n >= 1:
\* fetchEbayMarketData calls it for an estimate whose mid is positive.
BlendCase ==
    /\ triangulation # None
    /\ aiEstimate # None
    /\ ebayData.listingCount >= 1
    /\ (pc = "fetchEbayMarketData" => aiEstimate.mid > 0)

RatIs(r, a, num, den) == r.n * den = a * num * r.d

\* The estimate the triangulation worked on was discounted, not blended.
AiDiscounted ==
    /\ RatIs(triangulation.low, aiEstimate.low, 80, 100)
    /\ RatIs(triangulation.mid, aiEstimate.mid, 85, 100)
    /\ RatIs(triangulation.high, aiEstimate.high, 90, 100)
    /\ triangulation.confidence = 40
    /\ triangulation.dataQuality = "low"

FixedFallback ==
    /\ triangulation.low = Rat(500, 1)
    /\ triangulation.mid = Rat(1500, 1)
    /\ triangulation.high = Rat(3000, 1)
    /\ triangulation.confidence = 10
    /\ triangulation.recommendation = "pass"

\* C11 as stated: with zero listings, a present AI estimate is returned
\* discounted (low * 0.8, mid * 0.85, high * 0.9, confidence 0.4, data quality
\* low) and an absent one gives the fixed fallback (5, 15, 30, confidence 0.1,
\* pass).
C11_MissingInputs_AnyEstimate ==
    (triangulation # None /\ ebayData.listingCount = 0) =>
        IF aiEstimate # None THEN AiDiscounted ELSE FixedFallback

\* C11 (amended): with zero listings, an AI estimate whose mid is positive is
\* returned discounted (low * 0.8, mid * 0.85, high * 0.9) with confidence 0.4
\* and data quality low, without blending; with zero listings and no AI
\* estimate the result is the fixed fallback low 5, mid 15, high 30,
\* confidence 0.1, recommendation pass.
C11_MissingInputs ==
    (triangulation # None /\ ebayData.listingCount = 0) =>
        /\ (aiEstimate # None /\ aiEstimate.mid > 0) => AiDiscounted
        /\ aiEstimate = None => FixedFallback

\* fetchEbayMarketData found nothing and discounted an uneven estimate.
C11_Witness ==
    /\ pc = "fetchEbayMarketData"
    /\ ebayData.listingCount = 0
    /\ aiEstimate # None
    /\ 0 < aiEstimate.low /\ aiEstimate.low < aiEstimate.mid
    /\ aiEstimate.mid < aiEstimate.high
    /\ triangulation.confidence = 40
    /\ triangulation.reasoning = "No eBay listings found"
    /\ RatIs(triangulation.mid, aiEstimate.mid, 85, 100)

\* One of the two triangulation functions was called on the AI estimate.
TriangulatedFromEstimate ==
    /\ triangulation # None
    /\ aiEstimate # None
    /\ (pc = "fetchEbayMarketData" => aiEstimate.mid > 0)

\* C12: a triangulation of an AI estimate against n >= 0 listings recommends
\* buy if data quality is high and n > 15, pass if n < 3, maybe otherwise.
C12_RecommendationPolicy ==
    TriangulatedFromEstimate =>
        LET n == ebayData.listingCount
        IN  triangulation.recommendation =
                IF triangulation.dataQuality = "high" /\ n > 15 THEN "buy"
                ELSE IF n < 3 THEN "pass"
                ELSE "maybe"

\* A fraction of cents that is a whole number of cents.
WholeCents(r) == r.n % r.d = 0

\* C13: low, mid and high of every triangulated price (weighted blend, AI-only
\* discount, eBay-only discount, fixed fallback) are whole numbers of cents.
C13_WholeCents ==
    triangulation # None =>
        /\ WholeCents(triangulation.low)
        /\ WholeCents(triangulation.mid)
        /\ WholeCents(triangulation.high)

DensityTable(n) ==
    CASE n < 5 -> <<15, -3>>
      [] n >= 5 /\ n < 10 -> <<10, -2>>
      [] n > 100 -> <<-15, 7>>
      [] n > 50 /\ n <= 100 -> <<-10, 4>>
      [] OTHER -> <<0, 0>>

PositionTable(ai, median) ==
    CASE median <= 0 -> <<0, 0>>
      [] median > 0 /\ 100 * ai < 70 * median -> <<15, -3>>
      [] median > 0 /\ 100 * ai >= 70 * median /\ 100 * ai < 85 * median -> <<8, -2>>
      [] median > 0 /\ 100 * ai > 130 * median -> <<-12, 5>>
      [] median > 0 /\ 100 * ai > 110 * median /\ 100 * ai <= 130 * median -> <<-5, 2>>
      [] OTHER -> <<0, 0>>

BaseTable(demand) ==
    CASE demand = "high" -> <<65, 5>>
      [] demand = "medium" -> <<40, 12>>
      [] demand = "low" -> <<20, 25>>

MeetsThreshold(call) ==
    call.outcome.ok /\ Len(call.outcome.results) >= minResultsOf(minResults)

\* The calls made in the loop are the first Len(queries) calls.
LoopCalls == 1..Min2(Len(searchCalls), Len(queries))

C17_InsufficientEverywhere ==
    (/\ pc = "done"
     /\ \A k \in 1..Len(searchCalls) : searchCalls[k].outcome.ok
     /\ \A k \in LoopCalls : ~MeetsThreshold(searchCalls[k]))
    => LET last == queries[Len(queries)]
           call == searchCalls[Len(searchCalls)]
       IN  /\ call.query = last.query
           /\ \A j \in 1..Len(queries) : queries[j].tier <= last.tier
           /\ searchReturn.results = call.outcome.results
           /\ searchReturn.total = call.outcome.total
           /\ searchReturn.usedQuery = last.query
           /\ searchReturn.tier = last.tier
           /\ 2 * searchReturn.confidence = last.confidence
           /\ searchReturn.broadened

\* Three tiers, each searched with a result below the default threshold.
C17_Witness ==
    /\ pc = "done"
    /\ Len(queries) = 3
    /\ minResults = Omitted
    /\ \A k \in 1..Len(searchCalls) :
          searchCalls[k].outcome.ok /\ ~MeetsThreshold(searchCalls[k])
    /\ searchReturn.tier = 3
    /\ searchReturn.confidence = 350
    /\ searchReturn.results = <<"a">>

\* C18: a failed search on one tier does not end the call, the next tier is
\* searched; the call never rejects; and when every search fails the
\* returned value has an empty result list, total 0 and confidence 0.1.
C18_FailuresTolerated ==
    /\ \A k \in LoopCalls :
          (~searchCalls[k].outcome.ok /\ k < Len(queries)) =>
              \/ Len(searchCalls) = k /\ pc = "loop" /\ tierIndex = k + 1
              \/ Len(searchCalls) > k /\ searchCalls[k + 1].query = queries[k + 1].query
    /\ pc = "done" =>
          /\ "rejected" \notin DOMAIN searchReturn
          /\ "results" \in DOMAIN searchReturn
    /\ (pc = "done" /\ \A k \in 1..Len(searchCalls) : ~searchCalls[k].outcome.ok) =>
          /\ searchReturn.results = <<>>
          /\ searchReturn.total = 0
          /\ searchReturn.confidence = 100

\* The search failed on each of three tiers and on the last attempt.
C18_Witness ==
    /\ pc = "done"
    /\ Len(queries) = 3
    /\ Len(searchCalls) = 4
    /\ \A k \in 1..Len(searchCalls) : ~searchCalls[k].outcome.ok
    /\ searchReturn.confidence = 100
    /\ searchReturn.results = <<>>

\* The positions of a query that are not spaces, and how many of them lie at
\* or before a position.
NonSpaces(q) == {i \in 1..Len(q) : q[i] # " "}

NonSpaceRank(q, i) == Cardinality({j \in NonSpaces(q) : j <= i})

\* t is q with every run of spaces collapsed to one space and trimmed.
WhitespaceCleaned(t, q) ==
    /\ t # <<>> => (t[1] # " " /\ t[Len(t)] # " ")
    /\ \A i \in 1..(Len(t) - 1) : ~(t[i] = " " /\ t[i + 1] = " ")
    /\ Cardinality(NonSpaces(t)) = Cardinality(NonSpaces(q))
    /\ \A i \in NonSpaces(t) :
          \E j \in NonSpaces(q) :
              /\ NonSpaceRank(q, j) = NonSpaceRank(t, i)
              /\ t[i] = q[j]
              /\ (i > 1 /\ t[i - 1] = " ") <=>
                     (NonSpaceRank(q, j) > 1 /\ q[j - 1] = " ")

\* The conditions of C19 on the Tier 2 and Tier 3 entries.
TierEntriesJustified ==
    /\ Len(queries) >= 1
    /\ queries[1].tier = 1 /\ queries[1].confidence = 1000
    /\ \A k \in 2..Len(queries) :
          LET e == queries[k]
          IN  /\ e.tier \in {2, 3}
              /\ e.tier = 2 =>
                    /\ e.confidence = 850
                    /\ e.query # queries[1].query
                    /\ length(e.query) > 5
              /\ e.tier = 3 =>
                    /\ e.confidence = 700
                    /\ e.query # tier2Of(queries[1].query).query
                    /\ \A j \in 2..Len(queries) :
                          queries[j].tier = 2 => e.query # queries[j].query
                    /\ length(e.query) > 3

TermsOf(strippedTerms) == {strippedTerms[i] : i \in 1..Len(strippedTerms)}

\* C20: entries are in strictly increasing tier order with strictly
\* decreasing confidence, and a Tier 3 entry's strippedTerms contains every
\* term stripped while forming the Tier 2 query, also when the Tier 2 entry
\* was omitted.
C20_MonotoneTiers ==
    pc = "broadenQuery" =>
        /\ \A k \in 1..(Len(queries) - 1) :
              /\ queries[k].tier < queries[k + 1].tier
              /\ queries[k].confidence > queries[k + 1].confidence
        /\ \A k \in 1..Len(queries) :
              queries[k].tier = 3 =>
                  /\ TermsOf(tier2Of(queries[1].query).stripped)
                        \subseteq TermsOf(queries[k].strippedTerms)
                  /\ \A j \in 1..Len(queries) :
                        queries[j].tier = 2 =>
                            TermsOf(queries[j].strippedTerms)
                                \subseteq TermsOf(queries[k].strippedTerms)

\* Tier 3 without a Tier 2 entry although terms were stripped for Tier 2.
C20_Witness ==
    /\ pc = "broadenQuery"
    /\ Len(queries) = 2
    /\ queries[2].tier = 3
    /\ tier2Of(queries[1].query).stripped # <<>>
    /\ Len(queries[2].strippedTerms) > Len(tier2Of(queries[1].query).stripped)


\* C30: during one searchWithFallback call no tier's query is handed to the
\* search function more than once.
C30_OneSearchPerTier ==
    \A i, j \in 1..Len(searchCalls) :
        i # j => searchCalls[i].tier # searchCalls[j].tier


\* C29: in every VestScore the grade is the one scoreToGrade gives for the
\* reported total, with or without an override.
C29_GradeMatchesTotal ==
    vestScore # None => scoreToGrade(vestScore.total * 10) = vestScore.grade


\* C28: with the market and the shipping cost fixed, a higher buy price never
\* gives a better verdict: the final grade ranks no higher and the final score
\* is no greater, overrides included.
C28_BuyPriceMonotone ==
    vestScore # None =>
        \A p2 \in BuyPrices :
            p2 >= vestInput.buyPrice =>
                LET v2 == calculateVestScore(market, [vestInput EXCEPT !.buyPrice = p2])
                IN  /\ RankOf(v2.grade) <= RankOf(vestScore.grade)
                    /\ FinalScoreOf(v2) <= FinalScoreOf(vestScore)
                    /\ v2.total <= vestScore.total


\* C25: findMaxBuyPriceForProfit returns a price >= 0, and when the price is
\* > 0, calculateNetProfit at that buy price (same sale price, category and
\* shipping cost, no promoted listing) reports a netProfit equal to the target.
C25_MaxBuyMeetsTarget ==
    /\ maxBuyResult # Omitted => maxBuyResult[1] >= 0
    /\ (pc = "calculateNetProfit" /\ maxBuyResult # Omitted /\ maxBuyResult[1] > 0)
          => profitResult.netProfit = maxBuyArgs.targetNetProfit


\* The response without its listings whose price is not positive (an
\* unparsable price fails the same p > 0 test), the reported total unchanged.
PricedOnly(response) ==
    [response EXCEPT !.listings =
        [p \in DOMAIN response.listings |->
            IF p > 0 THEN response.listings[p] ELSE 0]]

\* C24: listings with a price <= 0 or NaN count for nothing: with them in the
\* response, the eBay average, minimum and maximum, the listing count n that
\* selects the triangulation weight, and so the triangulated price are what
\* they are without them.
C24_UnpricedListingsIgnored ==
    pc = "fetchEbayMarketData" =>
        LET without == ebayStats(PricedOnly(ebayResponse))
        IN  /\ ebayData.avgPrice = without.avgPrice
            /\ ebayData.minPrice = without.minPrice
            /\ ebayData.maxPrice = without.maxPrice
            /\ ebayData.listingCount = without.listingCount
            /\ triangulation = triangulatedPrices(aiEstimate, PricedOnly(ebayResponse))



\* The scan answered with market data.
ScanSucceeded ==
    /\ scanResponse # None
    /\ scanResponse # Rejected
    /\ scanResponse.success

\* C21: the summary of fetchEbayMarketData and of
\* generateMarketDataFromAIEstimate has minSoldPrice <= medianSoldPrice <=
\* maxSoldPrice, and a sellThroughRate within [0, 1] that is sold / (sold +
\* active) (here to the hundredth), whatever the sampling drew.
C21_SummaryOrdered ==
    (ScanSucceeded /\ scanResponse.data.marketData.source \in {"ebay", "ai"}) =>
        LET s == scanResponse.data.marketData.summary
            sold == IF scanResponse.data.marketData.source = "ebay"
                    THEN s.totalSold90Days ELSE s.totalSold30Days
        IN  /\ s.minSoldPrice <= s.medianSoldPrice
            /\ s.medianSoldPrice <= s.maxSoldPrice
            /\ s.sellThroughRate >= 0 /\ s.sellThroughRate <= 100
            /\ sold + s.activeListingCount > 0
                  => s.sellThroughRate = RoundDiv(100 * sold, sold + s.activeListingCount)

\* C23: no ratio of the pipeline yields NaN: the priceVolatility of a scan's
\* summary is a number, also for an AI estimate with mid = 0 and for sold
\* prices that are all 0.
C23_NoNaN ==
    ScanSucceeded => scanResponse.data.marketData.summary.priceVolatility # NaN



avgOfRemaining ==
    LET remaining == {i \in 1..Len(scanData.activeListings) :
                         i \notin excludedListings /\ scanData.activeListings[i] > 0}
        SumOver[S \in SUBSET remaining] ==
            IF S = {} THEN 0
            ELSE LET i == CHOOSE j \in S : TRUE
                 IN  scanData.activeListings[i] + SumOver[S \ {i}]
    IN  IF remaining = {} THEN 0
        ELSE RoundDiv(SumOver[remaining], Cardinality(remaining))

\* C22: once a listing has been excluded on the results page, the summary
\* shown is the one of the remaining listings: its average active price is
\* their mean, whatever was excluded and in whichever order.
C22_ExcludedListingsLeaveSummary ==
    (pc = "results" /\ excludedListings # {}) =>
        shownSummary.avgActivePrice = avgOfRemaining

====
